---- MODULE Spec2Model ----
(***************************************************************************)
(* KaraLuxer: conversion of karaoke subtitle lines into Ultrastar notes.   *)
(*                                                                         *)
(*   src/ultrastar/ultrastar.py   NoteLine, UltrastarSong                  *)
(*   src/karaluxer.py             KaraLuxer (overlap filters, converter)   *)
(*   src/kl_gui.py                KaraLuxerThread, KaraLuxerWindow         *)
(*                                                                         *)
(* The specifications share the variables below:                           *)
(*   SpecRescale     UltrastarSong.adjust_notes on bounded tracks          *)
(*   SpecIndividual  KaraLuxer._filter_overlapping_lines_individual        *)
(*   Spec            KaraLuxer.run from the loaded lines to the note lists *)
(*   SpecHeaders     UltrastarSong.add_metadata and __str__                *)
(*   SpecNotes       UltrastarSong.add_note and __str__                    *)
(*   SpecStart       KaraLuxer.__init__ and main                           *)
(*   SpecGui         KaraLuxerThread and the selection windows of the GUI  *)
(*   SpecGuiFair     SpecGui with a worker thread that keeps running       *)
(***************************************************************************)
EXTENDS Integers, Sequences, FiniteSets, TLC

VARIABLES
    lines,                  \* subtitle_lines: the list of subtitle lines
    styles,                 \* the (style, count) list of a style selection loop
    note_lines,             \* UltrastarSong.note_lines: P1 and P2 tracks
    meta_lines,             \* UltrastarSong.meta_lines, in insertion order
    emitted,                \* history: note_lines as _convert_lines left them
    pc,                     \* position of the job
    bpm,                    \* KaraLuxer.bpm (karaoke_bpm)
    bpm_multiplier,         \* KaraLuxer.bpm_multiplier (karaoke_bpm / song_bpm)
    overlap_filter_method,  \* KaraLuxer.overlap_filter_method
    pre_notes,              \* history: note_lines before the latest adjust_notes
    calls,                  \* history: adjust_notes calls so far, counted to 2
    input_lines,            \* history: the lines as they were loaded
    decisions,              \* history: calls of a decision function so far
    asked,                  \* history: what the latest call was given
    answer,                 \* history: what the latest call returned
    strays,                 \* history: answers that were not in the list given
    ultrastar_file,         \* the text lines str(UltrastarSong) has written
    raised,                 \* the exception the latest call raised, or NoText
    warned,                 \* the warnings.warn calls so far
    argv,                   \* the flags main was started with
    arguments,              \* the arguments KaraLuxer.__init__ was given
    instance,               \* the KaraLuxer instance, once constructed
    thread_selected_line,   \* KaraLuxerThread.selected_line
    thread_selected_style,  \* KaraLuxerThread.selected_style
    discard,                \* discard_line / discard_style of the thread
    handoff,                \* position of the thread in its decision method
    signals,                \* window signals emitted and not yet handled
    window,                 \* the request of the open selection window, if any
    chosen                  \* history: the selections the windows delivered

vars == <<lines, styles, note_lines, meta_lines, emitted, pc, bpm,
          bpm_multiplier, overlap_filter_method, pre_notes, calls,
          input_lines, decisions, asked, answer, strays, ultrastar_file,
          raised, warned, argv, arguments, instance, thread_selected_line,
          thread_selected_style, discard, handoff, signals, window, chosen>>

\* The variables of the front ends: main and the GUI thread.
start_vars == <<argv, arguments, instance>>

gui_vars ==
    <<thread_selected_line, thread_selected_style, discard, handoff, signals,
      window, chosen>>

(***************************************************************************)
(* Bounds of the model.                                                    *)
(***************************************************************************)
MaxNotes == 3       \* longest track given to adjust_notes
MaxBeat == 2        \* largest start beat of a sung note of such a track
MaxDur == 3         \* largest duration, and end beat, of a note of such a track
MaxMult == 3        \* largest BPM multiplier
MaxLines == 4       \* longest list of lines given to the individual filter
MaxTime == 2        \* largest start or end time of such a line
MaxSpans == 2       \* most spans in the text of a converted line
MaxTiming == 4      \* largest karaoke timing of a span, in centiseconds
MaxStart == 3       \* largest start time of a converted line, in centiseconds
MaxJobLines == 4    \* most lines of a job with several styles
MaxJobMult == 2     \* largest BPM multiplier of a job
MaxStray == 1       \* most answers of a decision function outside its list

(***************************************************************************)
(* Program constants and Python values.                                    *)
(***************************************************************************)
None == -1                  \* Python None for an Optional[int]
NoText == "<None>"          \* Python None for an Optional[str]
Players == {"P1", "P2"}

\* Python 3 round(n / d) for integers n >= 0, d > 0: the nearest integer,
\* an exact half going to the even neighbour.
PyRound(n, d) ==
    LET q == n \div d
        r == n % d
    IN  IF 2 * r < d THEN q
        ELSE IF 2 * r > d THEN q + 1
        ELSE IF q % 2 = 0 THEN q ELSE q + 1

\* Python None for a line, and the lines and names "not x" holds for.
NoLine == [id |-> None, start |-> 0, end |-> 0, style |-> NoText, text |-> <<>>]

\* No instance, no arguments: main and the constructor are not modelled.
NotStarted ==
    /\ argv = <<>>
    /\ arguments = <<>>
    /\ instance = <<>>

\* No KaraLuxerThread: the job runs on the thread of its caller.
NoThread ==
    /\ thread_selected_line = NoLine
    /\ thread_selected_style = NoText
    /\ discard = NoText
    /\ handoff = "none"
    /\ signals = <<>>
    /\ window = <<>>
    /\ chosen = <<>>

(***************************************************************************)
(* NoteLine                                                                *)
(***************************************************************************)
NoteLine(note_type, start_beat, duration, pitch, text) ==
    [note_type |-> note_type, start_beat |-> start_beat, duration |-> duration,
     pitch |-> pitch, text |-> text]

Linebreak(start_beat) == NoteLine("-", start_beat, None, None, NoText)

IsSung(note) == note.note_type # "-"

SungOf(notes) == SelectSeq(notes, IsSung)

(***************************************************************************)
(* UltrastarSong.adjust_notes                                              *)
(***************************************************************************)
\* for i, note in enumerate(notes): if note.note_type != '-': start = i; break
\* 0 when the track holds no sung note (the for-else return).
RECURSIVE FirstSung(_, _)
FirstSung(notes, i) ==
    IF i > Len(notes) THEN 0
    ELSE IF notes[i].note_type # "-" THEN i
    ELSE FirstSung(notes, i + 1)

\* for previous_note in notes[start+i::-1]: if previous_note.note_type != '-'
\* 0 when the search runs off the front of the list (the for-else continue).
RECURSIVE PreviousSung(_, _)
PreviousSung(notes, k) ==
    IF k < 1 THEN 0
    ELSE IF notes[k].note_type # "-" THEN k
    ELSE PreviousSung(notes, k - 1)

\* Mutant: a duration below the multiplier is rounded like the others.
SnapDurationNoMinimum(duration, m) == m * PyRound(duration, m)

\* if duration < bpm_multiplier: bpm_multiplier
\* else: bpm_multiplier * round(duration / bpm_multiplier)
SnapDuration(duration, m) ==
    IF duration < m THEN m ELSE m * PyRound(duration, m)

\* Mutant: the grid is taken from beat 0, not from the first sung note.
GridSnapAbsolute(start, start_beat, m) ==
    LET modulus == start % m
    IN  IF modulus # 0
        THEN IF PyRound(modulus, m) = 1 THEN start + (m - modulus)
             ELSE start - modulus
        ELSE start

\* Mutant: an exact half goes up.
GridSnapHalfUp(start, start_beat, m) ==
    LET modulus == (start - start_beat) % m
    IN  IF modulus # 0
        THEN IF 2 * modulus >= m THEN start + (m - modulus)
             ELSE start - modulus
        ELSE start

\* modulus = (note.start_beat - start_beat) % bpm_multiplier, then up when
\* round(modulus / bpm_multiplier) == 1 and down otherwise.
GridSnap(start, start_beat, m) ==
    LET modulus == (start - start_beat) % m
    IN  IF modulus # 0
        THEN IF PyRound(modulus, m) = 1 THEN start + (m - modulus)
             ELSE start - modulus
        ELSE start

SnapStart(start, previous_note_end, start_beat, m) ==
    IF previous_note_end > start /\ start > previous_note_end - m
    THEN previous_note_end
    ELSE GridSnap(start, start_beat, m)

\* Mutant: the linebreaks before a sung note are left where they are.
KeepBreak(break, start_beat) == break

\* for idx in last_break_idx: notes[idx].start_beat = note.start_beat
MoveBreak(break, start_beat) == [break EXCEPT !.start_beat = start_beat]

\* The loop over notes[start+1:], k being the position of the current note.
RECURSIVE AdjustLoop(_, _, _, _, _)
AdjustLoop(notes, k, m, start_beat, last_break_idx) ==
    IF k > Len(notes) THEN notes
    ELSE IF notes[k].note_type = "-"
    THEN AdjustLoop(notes, k + 1, m, start_beat, last_break_idx \cup {k})
    ELSE
        LET p == PreviousSung(notes, k - 1)
        IN  IF p = 0
            THEN AdjustLoop(notes, k + 1, m, start_beat, last_break_idx)
            ELSE
                LET previous_note_end ==
                        notes[p].start_beat + notes[p].duration
                    s == SnapStart(notes[k].start_beat, previous_note_end,
                                   start_beat, m)
                    d == SnapDuration(notes[k].duration, m)
                    moved ==
                        [j \in 1..Len(notes) |->
                            IF j = k
                            THEN [notes[j] EXCEPT !.start_beat = s,
                                                  !.duration = d]
                            ELSE IF j \in last_break_idx
                            THEN MoveBreak(notes[j], s)
                            ELSE notes[j]]
                IN  AdjustLoop(moved, k + 1, m, start_beat, {})

adjust_notes(notes, m) ==
    LET start == FirstSung(notes, 1)
    IN  IF start = 0 THEN notes
        ELSE
            LET first ==
                    [notes EXCEPT ![start].duration =
                        SnapDuration(notes[start].duration, m)]
            IN  AdjustLoop(first, start + 1, m, notes[start].start_beat, {})

(***************************************************************************)
(* SpecRescale: adjust_notes applied to bounded tracks.                    *)
(***************************************************************************)
DEFAULT_PITCH == 19

\* The sung notes that end by beat MaxDur, and a linebreak.
RescaleNotes ==
    {n \in {NoteLine(":", s, d, DEFAULT_PITCH, "la") :
                s \in 0..MaxBeat, d \in 0..MaxDur} :
        n.start_beat + n.duration <= MaxDur}
        \cup {Linebreak(0)}

RescaleTracks ==
    UNION {[1..n -> RescaleNotes] : n \in 0..MaxNotes}

\* The track of the player adjust_notes is not called for.
OtherTrack == <<NoteLine(":", 1, 1, DEFAULT_PITCH, "la"), Linebreak(2)>>

InitRescale ==
    /\ \E track \in RescaleTracks :
            note_lines = [P1 |-> track, P2 |-> OtherTrack]
    /\ bpm_multiplier \in 2..MaxMult    \* run calls it if bpm_multiplier > 1
    /\ pre_notes = note_lines
    /\ emitted = note_lines
    /\ calls = 0
    /\ pc = "rescale"
    /\ lines = <<>>
    /\ styles = <<>>
    /\ meta_lines = <<<<"BPM", "1500">>>>
    /\ bpm = 1500
    /\ overlap_filter_method = "None"
    /\ input_lines = <<>>
    /\ decisions = 0
    /\ asked = <<>>
    /\ answer = NoText
    /\ strays = 0
    /\ ultrastar_file = <<>>
    /\ raised = NoText
    /\ warned = <<>>
    /\ NotStarted
    /\ NoThread

\* Mutant: the tracks of both players are adjusted.
AdjustNotesEveryPlayer(player) ==
    /\ pc = "rescale"
    /\ pre_notes' = note_lines
    /\ note_lines' = [q \in Players |->
                        adjust_notes(note_lines[q], bpm_multiplier)]
    /\ calls' = IF calls < 2 THEN calls + 1 ELSE calls
    /\ UNCHANGED <<lines, styles, meta_lines, emitted, pc, bpm,
                   bpm_multiplier, overlap_filter_method, input_lines,
                   decisions, asked, answer, strays>>
    /\ UNCHANGED <<ultrastar_file, raised, warned>>
    /\ UNCHANGED <<start_vars, gui_vars>>

\* self.ultrastar_song.adjust_notes(self.bpm_multiplier), player = 'P1'
AdjustNotes(player) ==
    /\ pc = "rescale"
    /\ pre_notes' = note_lines
    /\ note_lines' = [note_lines EXCEPT
                        ![player] = adjust_notes(@, bpm_multiplier)]
    /\ calls' = IF calls < 2 THEN calls + 1 ELSE calls
    /\ UNCHANGED <<lines, styles, meta_lines, emitted, pc, bpm,
                   bpm_multiplier, overlap_filter_method, input_lines,
                   decisions, asked, answer, strays>>
    /\ UNCHANGED <<ultrastar_file, raised, warned>>
    /\ UNCHANGED <<start_vars, gui_vars>>

NextRescale == AdjustNotes("P1")

SpecRescale == InitRescale /\ [][NextRescale]_vars

(***************************************************************************)
(* Properties of adjust_notes, checked under SpecRescale.                  *)
(***************************************************************************)
SungIdx(notes) == {k \in 1..Len(notes) : IsSung(notes[k])}

Abs(x) == IF x < 0 THEN -x ELSE x

HasBreakBetweenSung(notes) ==
    \E i, j, k \in 1..Len(notes) :
        /\ i < j /\ j < k
        /\ IsSung(notes[i]) /\ ~IsSung(notes[j]) /\ IsSung(notes[k])

\* The sung notes of a track, in list order, start in non-decreasing order.
SungInOrder(notes) ==
    \A i, j \in SungIdx(notes) :
        i < j => notes[i].start_beat <= notes[j].start_beat

\* Position k holds a sung note that adjust_notes snaps to the grid: it is
\* not the first sung note and it is not pulled to the end of the sung note
\* before it (whose end is taken after that note was adjusted).
GridSnapped(before, after, k, m) ==
    /\ k \in SungIdx(before)
    /\ k > FirstSung(before, 1)
    /\ LET p == PreviousSung(before, k - 1)
           previous_note_end == after[p].start_beat + after[p].duration
       IN  ~(/\ previous_note_end > before[k].start_beat
             /\ before[k].start_beat > previous_note_end - m)

OffsetFromFirst(before, k) ==
    before[k].start_beat - before[FirstSung(before, 1)].start_beat

\* C2: BPM rescaling is idempotent: a second adjust_notes with the same
\* multiplier leaves every note as the first application left it.
C2_RescaleIdempotent ==
    calls = 2 => note_lines = pre_notes

C2_Witness ==
    /\ calls = 2
    /\ bpm_multiplier > 1
    /\ note_lines = pre_notes
    /\ Cardinality(SungIdx(note_lines["P1"])) >= 2
    /\ HasBreakBetweenSung(note_lines["P1"])
    /\ \E k \in SungIdx(note_lines["P1"]) :
          /\ emitted["P1"][k].start_beat # note_lines["P1"][k].start_beat
          /\ emitted["P1"][k].duration # note_lines["P1"][k].duration

\* C4: consecutive sung notes that did not overlap before adjust_notes do
\* not overlap after it (m > 1).
C4_NoOverlapIntroduced ==
    (calls = 1 /\ bpm_multiplier > 1) =>
        \A k \in SungIdx(pre_notes["P1"]) :
            LET p == PreviousSung(pre_notes["P1"], k - 1)
                before == pre_notes["P1"]
                after == note_lines["P1"]
            IN  (/\ p # 0
                 /\ before[k].start_beat >=
                        before[p].start_beat + before[p].duration)
                => after[k].start_beat >=
                        after[p].start_beat + after[p].duration

\* C5: sung notes in non-decreasing start order before adjust_notes are in
\* non-decreasing start order after it (m > 1).
C5_OrderPreserved ==
    (calls = 1 /\ bpm_multiplier > 1 /\ SungInOrder(pre_notes["P1"]))
        => SungInOrder(note_lines["P1"])

\* C6: after adjust_notes every sung note starts a multiple of m away from
\* the first sung note, and has a duration that is a multiple of m and at
\* least m: m for a duration below m, otherwise a nearest multiple of m.
C6_GridInvariant ==
    LET after == note_lines["P1"]
        before == pre_notes["P1"]
        m == bpm_multiplier
    IN  (calls >= 1 /\ SungIdx(after) # {}) =>
            \A k \in SungIdx(after) :
                /\ (after[k].start_beat
                        - after[FirstSung(after, 1)].start_beat) % m = 0
                /\ after[k].duration % m = 0
                /\ after[k].duration >= m
                /\ calls = 1 =>
                      IF before[k].duration < m
                      THEN after[k].duration = m
                      ELSE 2 * Abs(after[k].duration - before[k].duration) <= m

C6_Witness ==
    /\ calls = 1
    /\ bpm_multiplier > 1
    /\ Cardinality(SungIdx(note_lines["P1"])) >= 2
    /\ \E k \in SungIdx(note_lines["P1"]) :
          /\ pre_notes["P1"][k].duration < bpm_multiplier
          /\ note_lines["P1"][k].start_beat # pre_notes["P1"][k].start_beat
    /\ \E k \in SungIdx(note_lines["P1"]) :
          /\ pre_notes["P1"][k].duration > bpm_multiplier
          /\ note_lines["P1"][k].duration # pre_notes["P1"][k].duration

\* C7 as stated: a grid-snapped note whose offset from the first sung note
\* lies exactly half-way between two multiples of m moves up; any other
\* non-zero remainder moves to the nearest multiple.
C7_HalfWayUp ==
    LET after == note_lines["P1"]
        before == pre_notes["P1"]
        m == bpm_multiplier
    IN  calls = 1 =>
            \A k \in 1..Len(before) :
                LET modulus == OffsetFromFirst(before, k) % m
                IN  (GridSnapped(before, after, k, m) /\ modulus # 0) =>
                        IF 2 * modulus >= m
                        THEN after[k].start_beat
                                = before[k].start_beat + (m - modulus)
                        ELSE after[k].start_beat
                                = before[k].start_beat - modulus

\* C7 amended: at exactly half-way the note moves down to the lower
\* multiple; any other non-zero remainder moves to the nearest multiple.
C7_HalfWayDown ==
    LET after == note_lines["P1"]
        before == pre_notes["P1"]
        m == bpm_multiplier
    IN  calls = 1 =>
            \A k \in 1..Len(before) :
                LET modulus == OffsetFromFirst(before, k) % m
                IN  (GridSnapped(before, after, k, m) /\ modulus # 0) =>
                        IF 2 * modulus > m
                        THEN after[k].start_beat
                                = before[k].start_beat + (m - modulus)
                        ELSE after[k].start_beat
                                = before[k].start_beat - modulus

C7_Witness ==
    /\ calls = 1
    /\ \E k \in 1..Len(pre_notes["P1"]) :
          /\ GridSnapped(pre_notes["P1"], note_lines["P1"], k, bpm_multiplier)
          /\ 2 * (OffsetFromFirst(pre_notes["P1"], k) % bpm_multiplier)
                = bpm_multiplier
          /\ note_lines["P1"][k].start_beat
                = pre_notes["P1"][k].start_beat - (bpm_multiplier \div 2)

\* The position of the first sung note after position j, 0 if none.
RECURSIVE NextSung(_, _)
NextSung(notes, j) ==
    IF j >= Len(notes) THEN 0
    ELSE IF IsSung(notes[j + 1]) THEN j + 1
    ELSE NextSung(notes, j + 1)

\* C20: after adjust_notes every linebreak that lies, in list order,
\* between two sung notes has the start_beat of the next sung note after
\* it, as that note was left by the adjustment.
C20_BreakFollowsNextSung ==
    calls >= 1 =>
        LET after == note_lines["P1"]
        IN  \A j \in 1..Len(after) :
                (/\ ~IsSung(after[j])
                 /\ PreviousSung(after, j) # 0
                 /\ NextSung(after, j) # 0)
                    => after[j].start_beat
                          = after[NextSung(after, j)].start_beat

C20_Witness ==
    /\ calls = 1
    /\ bpm_multiplier > 1
    /\ \E j \in 1..Len(note_lines["P1"]) :
          LET after == note_lines["P1"]
              before == pre_notes["P1"]
              k == NextSung(after, j)
          IN  /\ ~IsSung(after[j])
              /\ PreviousSung(after, j) # 0
              /\ k # 0
              /\ after[k].start_beat # before[k].start_beat
              /\ after[j].start_beat # before[j].start_beat
              /\ after[j].start_beat = after[k].start_beat

\* C21: after adjust_notes every sung note of the track starts and ends at
\* a beat divisible by m, whatever the start beat of the first sung note.
C21_AbsoluteGrid ==
    calls >= 1 =>
        \A k \in SungIdx(note_lines["P1"]) :
            LET note == note_lines["P1"][k]
            IN  /\ note.start_beat % bpm_multiplier = 0
                /\ (note.start_beat + note.duration) % bpm_multiplier = 0

\* The last sung note of a track, 0 if it has none.
LastSung(notes) ==
    IF SungIdx(notes) = {} THEN 0
    ELSE CHOOSE k \in SungIdx(notes) : \A j \in SungIdx(notes) : j <= k

\* One call of adjust_notes for P1 seen as a step: what it may change.
FrameStep ==
    LET before == note_lines["P1"]
        after == note_lines'["P1"]
        first == FirstSung(before, 1)
    IN  /\ Len(after) = Len(before)
        /\ \A k \in 1..Len(before) :
              /\ after[k].note_type = before[k].note_type
              /\ after[k].pitch = before[k].pitch
              /\ after[k].text = before[k].text
              /\ ~IsSung(before[k]) => after[k].duration = before[k].duration
              /\ (k < first \/ k > LastSung(before)) => after[k] = before[k]
        /\ SungIdx(before) # {}
                => after[first].start_beat = before[first].start_beat
        /\ SungIdx(before) = {} => after = before
        /\ note_lines'["P2"] = note_lines["P2"]
        /\ meta_lines' = meta_lines
        /\ bpm' = bpm /\ bpm_multiplier' = bpm_multiplier

\* C30: adjust_notes(m, player) changes only start_beat and duration of
\* notes of that player's track: no note is added, removed or reordered,
\* no type, pitch or text changes, the first sung note keeps its start
\* beat, a linebreak before the first or after the last sung note keeps
\* its beat, the other player's track and the metadata are untouched, and
\* a track without sung notes stays as it is.
C30_RescalerFrame == [][FrameStep]_vars

\* adjust_notes has changed a start beat and a duration of a track that
\* opens and closes with a linebreak.
C30_Witness ==
    /\ calls = 1
    /\ LET before == pre_notes["P1"]
           after == note_lines["P1"]
       IN  /\ Len(before) = 3
           /\ ~IsSung(before[1])
           /\ IsSung(before[2])
           /\ ~IsSung(before[3])
           /\ after[2].duration # before[2].duration
           /\ after[1] = before[1]
           /\ after[3] = before[3]
    /\ note_lines["P2"] = OtherTrack

\* adjust_notes has moved a sung note that is not the first one.
C30_WitnessMoved ==
    /\ calls = 1
    /\ \E k \in SungIdx(pre_notes["P1"]) :
          /\ k > FirstSung(pre_notes["P1"], 1)
          /\ note_lines["P1"][k].start_beat # pre_notes["P1"][k].start_beat

(***************************************************************************)
(* Subtitle lines (ass.line._Event): start and end in centiseconds, the    *)
(* style name and the text, a list of bracketed spans. id                  *)
(* tells the objects of one list apart, as list.remove does by identity.   *)
(***************************************************************************)
Line(id, start, end, style, text) ==
    [id |-> id, start |-> start, end |-> end, style |-> style, text |-> text]

\* relevant_lines.sort(key=lambda l: l.start)
SortedByStart(ls) ==
    \A i, j \in 1..Len(ls) : i < j => ls[i].start <= ls[j].start

\* Mutant: nothing is removed.
RemoveNothing(ls, x) == ls

\* Mutant: the first line of the list is removed, whatever x is.
RemoveHead(ls, x) == IF ls = <<>> THEN <<>> ELSE Tail(ls)

\* list.remove(x): the list without its first element equal to x.
RECURSIVE Remove(_, _)
Remove(ls, x) ==
    IF ls = <<>> THEN <<>>
    ELSE IF Head(ls) = x THEN Tail(ls)
    ELSE <<Head(ls)>> \o Remove(Tail(ls), x)

(***************************************************************************)
(* KaraLuxer._filter_overlapping_lines_individual                          *)
(***************************************************************************)
\* Mutant: the end of the second line is compared, not its start.
OverlapsByEnd(current_line, selected_line) ==
    current_line.end > selected_line.end

\* if current_line.end > selected_line.start
Overlaps(current_line, selected_line) ==
    current_line.end > selected_line.start

\* Mutant: each line is compared with the line before it, not with line i.
RECURSIVE GroupTailChained(_, _, _)
GroupTailChained(ls, i, j) ==
    IF j > Len(ls) THEN <<>>
    ELSE IF Overlaps(ls[j - 1], ls[j])
    THEN <<ls[j]>> \o GroupTailChained(ls, i, j + 1)
    ELSE <<>>

\* for j in range(i + 1, len(lines)): append while overlapping, else break
RECURSIVE GroupTail(_, _, _)
GroupTail(ls, i, j) ==
    IF j > Len(ls) THEN <<>>
    ELSE IF Overlaps(ls[i], ls[j])
    THEN <<ls[j]>> \o GroupTail(ls, i, j + 1)
    ELSE <<>>

OverlapGroupAt(ls, i) == <<ls[i]>> \o GroupTail(ls, i, i + 1)

\* for i in range(0, len(lines)): the first overlap_group with more than one
\* line; the empty list when the scan ends without one.
RECURSIVE FirstOverlapGroup(_, _)
FirstOverlapGroup(ls, i) ==
    IF i > Len(ls) THEN <<>>
    ELSE IF Len(OverlapGroupAt(ls, i)) > 1 THEN OverlapGroupAt(ls, i)
    ELSE FirstOverlapGroup(ls, i + 1)

Members(group) == {group[n] : n \in 1..Len(group)}

\* The (start, end) of a line that is shown for some time.
Intervals == {iv \in (0..MaxTime) \X (0..MaxTime) : iv[1] < iv[2]}

InitIndividual ==
    /\ \E n \in 0..MaxLines : \E f \in [1..n -> Intervals] :
          /\ lines = [i \in 1..n |-> Line(i, f[i][1], f[i][2], "A", <<>>)]
          /\ SortedByStart(lines)
    /\ input_lines = lines
    /\ decisions = 0
    /\ asked = <<>>
    /\ answer = NoText
    /\ strays = 0
    /\ pc = "filter"
    /\ overlap_filter_method = "individual"
    /\ styles = <<>>
    /\ note_lines = [P1 |-> <<>>, P2 |-> <<>>]
    /\ emitted = note_lines
    /\ pre_notes = note_lines
    /\ meta_lines = <<>>
    /\ bpm = 1500
    /\ bpm_multiplier = 1
    /\ calls = 0
    /\ ultrastar_file = <<>>
    /\ raised = NoText
    /\ warned = <<>>
    /\ NotStarted
    /\ NoThread

\* A line object that is in no list of the job.
StrangerLine == Line(0, 0, 0, "A", <<>>)

\* Mutant: overlap_exists stays False, the while loop ends after one pass.
overlap_exists_unset(overlap_group) == FALSE

\* if len(overlap_group) > 1: overlap_exists = True
overlap_exists(overlap_group) == Len(overlap_group) > 1

Returned(position) ==
    IF position = "filter" THEN "filtered" ELSE "filtered_again"

\* One pass of the while loop that finds a group: the decision function is
\* called with it and the line it returns is removed; list.remove raises
\* ValueError for a line that is not in the list.
Decide(discarded_line) ==
    /\ pc \in {"filter", "filter_again"}
    /\ LET overlap_group == FirstOverlapGroup(lines, 1)
       IN  /\ overlap_group # <<>>
           /\ discarded_line \in Members(overlap_group) \/ strays < MaxStray
           /\ asked' = overlap_group
           /\ answer' = discarded_line
           /\ decisions' = decisions + 1
           /\ strays' = IF discarded_line \in Members(overlap_group)
                        THEN strays ELSE strays + 1
           /\ IF discarded_line \in Members(lines)
              THEN /\ lines' = Remove(lines, discarded_line)
                   /\ pc' = IF overlap_exists(overlap_group)
                            THEN pc ELSE Returned(pc)
              ELSE /\ lines' = lines
                   /\ pc' = "error"
    /\ UNCHANGED <<styles, note_lines, meta_lines, emitted, bpm,
                   bpm_multiplier, overlap_filter_method, pre_notes, calls,
                   input_lines>>
    /\ UNCHANGED <<ultrastar_file, raised, warned>>
    /\ UNCHANGED <<start_vars, gui_vars>>

\* The pass of the while loop that finds no group: return lines.
FilterReturn ==
    /\ pc \in {"filter", "filter_again"}
    /\ FirstOverlapGroup(lines, 1) = <<>>
    /\ pc' = Returned(pc)
    /\ UNCHANGED <<lines, styles, note_lines, meta_lines, emitted, bpm,
                   bpm_multiplier, overlap_filter_method, pre_notes, calls,
                   input_lines, decisions, asked, answer, strays>>
    /\ UNCHANGED <<ultrastar_file, raised, warned>>
    /\ UNCHANGED <<start_vars, gui_vars>>

\* _filter_overlapping_lines_individual called on the list it returned.
FilterAgain ==
    /\ pc = "filtered"
    /\ pc' = "filter_again"
    /\ UNCHANGED <<lines, styles, note_lines, meta_lines, emitted, bpm,
                   bpm_multiplier, overlap_filter_method, pre_notes, calls,
                   input_lines, decisions, asked, answer, strays>>
    /\ UNCHANGED <<ultrastar_file, raised, warned>>
    /\ UNCHANGED <<start_vars, gui_vars>>

NextIndividual ==
    \/ \E discarded_line \in Members(lines) \cup {StrangerLine} :
            Decide(discarded_line)
    \/ FilterReturn
    \/ FilterAgain

SpecIndividual == InitIndividual /\ [][NextIndividual]_vars

(***************************************************************************)
(* KaraLuxer._get_styles_in_lines, _get_lines_in_style                     *)
(***************************************************************************)
StyleNames(sts) == {sts[n][1] : n \in 1..Len(sts)}

\* styles.setdefault(line.style, 0); styles[line.style] = line_count + 1
CountStyle(sts, style) ==
    IF style \in StyleNames(sts)
    THEN [n \in 1..Len(sts) |->
            IF sts[n][1] = style THEN <<style, sts[n][2] + 1>> ELSE sts[n]]
    ELSE Append(sts, <<style, 1>>)

RECURSIVE StylesFrom(_, _, _)
StylesFrom(ls, i, sts) ==
    IF i > Len(ls) THEN sts
    ELSE StylesFrom(ls, i + 1, CountStyle(sts, ls[i].style))

\* list(styles.items()): (style, count) in order of first appearance.
get_styles_in_lines(ls) == StylesFrom(ls, 1, <<>>)

get_lines_in_style(style, ls) ==
    SelectSeq(ls, LAMBDA l : l.style = style)

\* Mutant: the first style of the list is discarded, whatever was selected.
DiscardFirstStyle(sts, selected_style) == Tail(sts)

\* [style for style in styles if style[0] != selected_style]
DiscardStyle(sts, selected_style) ==
    SelectSeq(sts, LAMBDA st : st[1] # selected_style)

(***************************************************************************)
(* UltrastarSong.add_metadata, add_note                                    *)
(***************************************************************************)
\* self.meta_lines[tag] = value: a dict keeps the place of a key it holds.
add_metadata(meta, tag, value) ==
    IF \E n \in 1..Len(meta) : meta[n][1] = tag
    THEN [n \in 1..Len(meta) |->
            IF meta[n][1] = tag THEN <<tag, value>> ELSE meta[n]]
    ELSE Append(meta, <<tag, value>>)

\* NoteLine.__init__ raises ValueError: a line that is no linebreak lacks
\* (or has a falsy) duration, pitch or text, and its duration is not 0.
NoteLineRaises(note_type, duration, pitch, text) ==
    /\ note_type # "-"
    /\ ~(/\ duration # None /\ duration # 0
          /\ pitch # None /\ pitch # 0
          /\ text # NoText /\ text # "")
    /\ duration # 0

ZERO_BEATS == "0 beat long note"

\* NoteLine.__init__ calls warnings.warn('0 beat long note').
NoteLineWarns(note_type, duration, pitch, text) ==
    /\ note_type # "-"
    /\ ~(/\ duration # None /\ duration # 0
          /\ pitch # None /\ pitch # 0
          /\ text # NoText /\ text # "")
    /\ duration = 0

\* note = NoteLine(...); self.note_lines[player].append(note): nothing is
\* appended when the constructor raises.
add_note(song, note_type, start_beat, duration, pitch, text, player) ==
    IF NoteLineRaises(note_type, duration, pitch, text) THEN song
    ELSE [song EXCEPT ![player] =
            Append(@, NoteLine(note_type, start_beat, duration, pitch, text))]

(***************************************************************************)
(* NoteLine.__str__ and the note blocks of UltrastarSong.__str__: the      *)
(* output is a list of text lines.                                         *)
(***************************************************************************)
\* str.format of an Optional[int] and of an Optional[str]: None is written
\* as None.
IntStr(value) == IF value = None THEN "None" ELSE ToString(value)

TextStr(value) == IF value = NoText THEN "None" ELSE value

\* '{0} {1}'.format(note_type, start_beat) for a linebreak, else
\* '{0} {1} {2} {3} {4}'.format(note_type, start_beat, duration, pitch, text)
NoteStr(note) ==
    IF note.note_type = "-"
    THEN note.note_type \o " " \o ToString(note.start_beat)
    ELSE note.note_type \o " " \o ToString(note.start_beat)
            \o " " \o IntStr(note.duration)
            \o " " \o IntStr(note.pitch) \o " " \o TextStr(note.text)

\* Mutant: a note is put before the notes of the same start_beat.
RECURSIVE InsertBeforeTies(_, _)
InsertBeforeTies(sorted, note) ==
    IF sorted = <<>> THEN <<note>>
    ELSE IF Head(sorted).start_beat < note.start_beat
    THEN <<Head(sorted)>> \o InsertBeforeTies(Tail(sorted), note)
    ELSE <<note>> \o sorted

\* One note put into a list sorted by start_beat, after the notes of the
\* same start_beat.
RECURSIVE InsertByBeat(_, _)
InsertByBeat(sorted, note) ==
    IF sorted = <<>> THEN <<note>>
    ELSE IF Head(sorted).start_beat <= note.start_beat
    THEN <<Head(sorted)>> \o InsertByBeat(Tail(sorted), note)
    ELSE <<note>> \o sorted

\* sorted(notes, key=lambda n: n.start_beat): a stable sort.
RECURSIVE SortedFrom(_, _, _)
SortedFrom(notes, k, sorted) ==
    IF k > Len(notes) THEN sorted
    ELSE SortedFrom(notes, k + 1, InsertByBeat(sorted, notes[k]))

sorted_notes(notes) == SortedFrom(notes, 1, <<>>)

NoteStrs(notes) == [k \in 1..Len(notes) |-> NoteStr(notes[k])]

\* The lines __str__ writes after the metadata.
NoteBlocks(song) ==
    LET sorted_notes_1 == sorted_notes(song["P1"])
        sorted_notes_2 == sorted_notes(song["P2"])
    IN  IF sorted_notes_2 # <<>>
        THEN <<"P1">> \o NoteStrs(sorted_notes_1) \o <<"E">>
                \o <<"P2">> \o NoteStrs(sorted_notes_2) \o <<"E">>
        ELSE NoteStrs(sorted_notes_1) \o <<"E">>

(***************************************************************************)
(* UltrastarSong.sort_metadata and UltrastarSong.__str__                   *)
(***************************************************************************)
\* The list sort_metadata goes through, in its order.
KnownHeaders ==
    <<"VERSION", "TITLE", "ARTIST", "LANGUAGE", "GENRE", "CREATOR", "TAGS",
      "YEAR",
      "AUDIO", "MP3", "INSTRUMENTAL", "VOCALS", "BACKGROUND", "COVER", "VIDEO",
      "BPM", "GAP", "START", "END", "PREVIEWSTART", "VIDEOGAP", "COMMENT",
      "PROVIDEDBY", "KARALUXER-KARAID", "KARALUXER-VERSION">>

Tags(meta) == {meta[n][1] : n \in 1..Len(meta)}

\* headers.pop(header, None): the value held for header, None if it is not
\* a key.
Pop(meta, header) ==
    IF header \in Tags(meta)
    THEN meta[CHOOSE n \in 1..Len(meta) : meta[n][1] = header][2]
    ELSE NoText

\* for header in [...]: value = headers.pop(header, None);
\*     if value is not None: yield header, value
RECURSIVE KnownFrom(_, _)
KnownFrom(meta, h) ==
    IF h > Len(KnownHeaders) THEN <<>>
    ELSE LET value == Pop(meta, KnownHeaders[h])
         IN  (IF value # NoText THEN << <<KnownHeaders[h], value>> >> ELSE <<>>)
                \o KnownFrom(meta, h + 1)

\* Mutant: the keys that were not popped are yielded last one first.
RemainingReversed(meta) ==
    LET left == SelectSeq(meta, LAMBDA item :
                    \A h \in 1..Len(KnownHeaders) : KnownHeaders[h] # item[1])
    IN  [n \in 1..Len(left) |-> left[Len(left) + 1 - n]]

\* for header, value in headers.items(): yield header, value, over what the
\* pops left of the copy, in insertion order.
Remaining(meta) ==
    SelectSeq(meta, LAMBDA item :
        \A h \in 1..Len(KnownHeaders) : KnownHeaders[h] # item[1])

\* Mutant: the headers are yielded in insertion order.
sort_metadata_unsorted(meta) == meta

sort_metadata(meta) == KnownFrom(meta, 1) \o Remaining(meta)

\* '#{0}:{1}\n'.format(tag, value)
HeaderStr(item) == "#" \o item[1] \o ":" \o TextStr(item[2])

HeaderStrs(meta) ==
    LET sorted == sort_metadata(meta)
    IN  [n \in 1..Len(sorted) |-> HeaderStr(sorted[n])]

\* UltrastarSong.__str__: the lines of the file.
Str(meta, song) == HeaderStrs(meta) \o NoteBlocks(song)

(***************************************************************************)
(* SpecHeaders: an UltrastarSong given metadata by add_metadata and then   *)
(* written out.                                                            *)
(***************************************************************************)
MaxHeaders == 3     \* most keys given to a song by add_metadata

\* The tags given to add_metadata: six that sort_metadata knows and two
\* that it does not.
HeaderTags ==
    {"VERSION", "MP3", "INSTRUMENTAL", "BACKGROUND", "COVER", "VIDEO",
     "AUDIOURL", "P1"}

HeaderValues == {"a", "b"}

InitSong ==
    /\ note_lines = [P1 |-> <<>>, P2 |-> <<>>]
    /\ meta_lines = <<>>
    /\ pc = "song"
    /\ ultrastar_file = <<>>
    /\ raised = NoText
    /\ warned = <<>>
    /\ pre_notes = note_lines
    /\ emitted = note_lines
    /\ calls = 0
    /\ lines = <<>>
    /\ styles = <<>>
    /\ bpm = 1500
    /\ bpm_multiplier = 1
    /\ overlap_filter_method = "None"
    /\ input_lines = <<>>
    /\ decisions = 0
    /\ asked = <<>>
    /\ answer = NoText
    /\ strays = 0
    /\ NotStarted
    /\ NoThread

\* self.ultrastar_song.add_metadata(tag, value)
AddMetadata(tag, value) ==
    /\ pc = "song"
    /\ tag \in Tags(meta_lines) \/ Len(meta_lines) < MaxHeaders
    /\ meta_lines' = add_metadata(meta_lines, tag, value)
    /\ UNCHANGED <<lines, styles, note_lines, emitted, pc, bpm, bpm_multiplier,
                   overlap_filter_method, pre_notes, calls, input_lines,
                   decisions, asked, answer, strays, ultrastar_file, raised,
                   warned>>
    /\ UNCHANGED <<start_vars, gui_vars>>

\* f.write(str(self.ultrastar_song))
WriteSong ==
    /\ pc = "song"
    /\ ultrastar_file' = Str(meta_lines, note_lines)
    /\ pc' = "written"
    /\ UNCHANGED <<lines, styles, note_lines, meta_lines, emitted, bpm,
                   bpm_multiplier, overlap_filter_method, pre_notes, calls,
                   input_lines, decisions, asked, answer, strays, raised,
                   warned>>
    /\ UNCHANGED <<start_vars, gui_vars>>

NextHeaders ==
    \/ \E tag \in HeaderTags : \E value \in HeaderValues :
            AddMetadata(tag, value)
    \/ WriteSong

SpecHeaders == InitSong /\ [][NextHeaders]_vars

(***************************************************************************)
(* SpecNotes: an UltrastarSong given notes by add_note and then written    *)
(* out.                                                                    *)
(***************************************************************************)
MaxSongNotes == 3   \* most notes given to a song by add_note

NoteBeats == {0, 1}

\* The arguments of add_note: a linebreak or a full sung note for either
\* player at any beat, and a sung note of player P1 at beat 0 with any
\* duration, pitch and text.
NoteArguments ==
    {<<"-", start_beat, None, None, NoText, player>> :
        start_beat \in NoteBeats, player \in Players}
    \cup {<<":", start_beat, 1, DEFAULT_PITCH, "la", player>> :
        start_beat \in NoteBeats, player \in Players}
    \cup {<<":", 0, duration, pitch, text, "P1">> :
        duration \in {None, 0, 1}, pitch \in {None, 0, DEFAULT_PITCH},
        text \in {NoText, "la"}}

\* self.ultrastar_song.add_note(note_type, start_beat, duration, pitch, text,
\* player); the ValueError of NoteLine.__init__ is not caught.
AddNote(note_type, start_beat, duration, pitch, text, player) ==
    /\ pc = "song"
    /\ Len(note_lines["P1"]) + Len(note_lines["P2"]) < MaxSongNotes
    /\ asked' = <<note_type, start_beat, duration, pitch, text, player>>
    /\ pre_notes' = note_lines
    /\ note_lines' = add_note(note_lines, note_type, start_beat, duration,
                              pitch, text, player)
    /\ raised' = IF NoteLineRaises(note_type, duration, pitch, text)
                 THEN "ValueError" ELSE NoText
    /\ pc' = IF NoteLineRaises(note_type, duration, pitch, text)
             THEN "error" ELSE pc
    /\ warned' = IF NoteLineWarns(note_type, duration, pitch, text)
                 THEN Append(warned, ZERO_BEATS) ELSE warned
    /\ calls' = IF calls < 2 THEN calls + 1 ELSE calls
    /\ UNCHANGED <<lines, styles, meta_lines, emitted, bpm, bpm_multiplier,
                   overlap_filter_method, input_lines, decisions, answer,
                   strays, ultrastar_file>>
    /\ UNCHANGED <<start_vars, gui_vars>>

NextNotes ==
    \/ \E a \in NoteArguments : AddNote(a[1], a[2], a[3], a[4], a[5], a[6])
    \/ WriteSong

SpecNotes == InitSong /\ [][NextNotes]_vars

(***************************************************************************)
(* Properties of the written notes and of add_note, checked under          *)
(* SpecNotes.                                                              *)
(***************************************************************************)
\* The place of notes[k] when the notes are put in ascending start_beat
\* order with the notes of one start_beat in insertion order.
Place(notes, k) ==
    1 + Cardinality({j \in 1..Len(notes) :
            \/ notes[j].start_beat < notes[k].start_beat
            \/ notes[j].start_beat = notes[k].start_beat /\ j < k})

ByBeatThenInsertion(notes) ==
    [r \in 1..Len(notes) |->
        notes[CHOOSE k \in 1..Len(notes) : Place(notes, k) = r]]

NoteTexts(notes) == [r \in 1..Len(notes) |-> NoteStr(notes[r])]

\* C24: each track is written in ascending start_beat order, notes of equal
\* start_beat in insertion order; with P2 empty the file is P1's notes and
\* one E, without a P1 or P2 line; with P2 not empty it is P1, P1's notes,
\* E, P2, P2's notes, E.
C24_TrackBlocks ==
    pc = "written" =>
        LET notes_1 == NoteTexts(ByBeatThenInsertion(note_lines["P1"]))
            notes_2 == NoteTexts(ByBeatThenInsertion(note_lines["P2"]))
            written == SubSeq(ultrastar_file, Len(meta_lines) + 1,
                              Len(ultrastar_file))
        IN  IF note_lines["P2"] = <<>>
            THEN /\ written = notes_1 \o <<"E">>
                 /\ \A n \in 1..Len(written) : written[n] \notin {"P1", "P2"}
                 /\ Cardinality({n \in 1..Len(written) : written[n] = "E"}) = 1
            ELSE written = <<"P1">> \o notes_1 \o <<"E">>
                              \o <<"P2">> \o notes_2 \o <<"E">>

C24_Witness ==
    /\ pc = "written"
    /\ note_lines["P1"] = <<Linebreak(1), NoteLine(":", 1, 1, DEFAULT_PITCH, "la"),
                            NoteLine(":", 0, 1, DEFAULT_PITCH, "la")>>
    /\ ultrastar_file = <<": 0 1 19 la", "- 1", ": 1 1 19 la", "E">>

C24_WitnessDuet ==
    /\ pc = "written"
    /\ note_lines["P1"] = <<Linebreak(1), NoteLine(":", 0, 1, DEFAULT_PITCH, "la")>>
    /\ note_lines["P2"] = <<Linebreak(0)>>
    /\ ultrastar_file = <<"P1", ": 0 1 19 la", "- 1", "E", "P2", "- 0", "E">>

\* A value was passed for the argument.
Present(value) == value # None

PresentText(value) == value # NoText

\* C25: add_note of a note that is no linebreak succeeds exactly when
\* duration, pitch and text are all present, a pitch of 0 and a duration of
\* 0 counting as present and a duration of 0 raising a warning; otherwise
\* it raises an error and leaves the track as it was. A linebreak needs
\* only its start beat.
C25_Validation ==
    calls >= 1 =>
        LET note_type == asked[1]
            duration == asked[3]
            pitch == asked[4]
            text == asked[5]
            player == asked[6]
            note == NoteLine(note_type, asked[2], duration, pitch, text)
            valid == \/ note_type = "-"
                     \/ Present(duration) /\ Present(pitch) /\ PresentText(text)
        IN  /\ raised = NoText <=> valid
            /\ valid => note_lines =
                    [pre_notes EXCEPT ![player] = Append(@, note)]
            /\ ~valid => note_lines = pre_notes
            /\ (valid /\ note_type # "-" /\ duration = 0)
                    => warned # <<>> /\ warned[Len(warned)] = ZERO_BEATS

(***************************************************************************)
(* Properties of the written headers, checked under SpecHeaders.           *)
(***************************************************************************)
\* The header lines of the written file.
HeaderPart == SubSeq(ultrastar_file, 1, Len(meta_lines))

\* The header lines of a file that has the keys of the priority list order
\* first, in the order of that list, and every other key after them, in
\* insertion order.
PriorityThenInsertion(meta, order) ==
    LET present == SelectSeq(order, LAMBDA header : header \in Tags(meta))
        others == SelectSeq(meta, LAMBDA item :
                      \A h \in 1..Len(order) : order[h] # item[1])
    IN  [n \in 1..Len(present) |->
            "#" \o present[n] \o ":" \o Pop(meta, present[n])]
        \o [n \in 1..Len(others) |->
            "#" \o others[n][1] \o ":" \o others[n][2]]

\* The priority order as C22 states it: version; title, artist, language,
\* genre, creator, tags, year; audio, cover, background, video,
\* instrumental, vocals; bpm, gap, start, end, preview, videogap, comment;
\* the provenance fields.
StatedHeaders ==
    <<"VERSION", "TITLE", "ARTIST", "LANGUAGE", "GENRE", "CREATOR", "TAGS",
      "YEAR",
      "AUDIO", "COVER", "BACKGROUND", "VIDEO", "INSTRUMENTAL", "VOCALS",
      "BPM", "GAP", "START", "END", "PREVIEWSTART", "VIDEOGAP", "COMMENT",
      "PROVIDEDBY", "KARALUXER-KARAID", "KARALUXER-VERSION">>

\* C22 as stated: the written headers are the recognized keys in the order
\* version; identity fields; audio, cover, background, video, instrumental,
\* vocals; timing fields; provenance fields; then every other key in
\* insertion order.
C22_StatedOrder ==
    pc = "written" => HeaderPart = PriorityThenInsertion(meta_lines, StatedHeaders)

\* C22 amended: the written headers are the recognized keys in the order
\* VERSION; TITLE, ARTIST, LANGUAGE, GENRE, CREATOR, TAGS, YEAR; AUDIO, MP3,
\* INSTRUMENTAL, VOCALS, BACKGROUND, COVER, VIDEO; BPM, GAP, START, END,
\* PREVIEWSTART, VIDEOGAP, COMMENT; PROVIDEDBY, KARALUXER-KARAID,
\* KARALUXER-VERSION; then every other key in insertion order.
C22_ListOrder ==
    pc = "written" =>
        HeaderPart = PriorityThenInsertion(meta_lines,
            <<"VERSION", "TITLE", "ARTIST", "LANGUAGE", "GENRE", "CREATOR",
              "TAGS", "YEAR", "AUDIO", "MP3", "INSTRUMENTAL", "VOCALS",
              "BACKGROUND", "COVER", "VIDEO", "BPM", "GAP", "START", "END",
              "PREVIEWSTART", "VIDEOGAP", "COMMENT", "PROVIDEDBY",
              "KARALUXER-KARAID", "KARALUXER-VERSION">>)

C22_Witness ==
    /\ pc = "written"
    /\ meta_lines = << <<"P1", "a">>, <<"COVER", "b">>, <<"AUDIOURL", "a">> >>
    /\ ultrastar_file = <<"#COVER:b", "#P1:a", "#AUDIOURL:a", "E">>

\* The metadata of a song after add_metadata was called for the items, in
\* their order.
RECURSIVE Inserted(_, _, _)
Inserted(items, n, meta) ==
    IF n > Len(items) THEN meta
    ELSE Inserted(items, n + 1, add_metadata(meta, items[n][1], items[n][2]))

\* Every order in which the key/value pairs of meta can be inserted.
InsertionOrders(meta) ==
    {[n \in 1..Len(meta) |-> meta[f[n]]] :
        f \in {g \in [1..Len(meta) -> 1..Len(meta)] :
                  \A i, j \in 1..Len(meta) : i # j => g[i] # g[j]}}

Unrecognized(meta) ==
    {tag \in Tags(meta) : \A h \in 1..Len(KnownHeaders) : KnownHeaders[h] # tag}

\* C23 as stated: the written file is the same for every order of
\* add_metadata calls that insert the same set of key/value pairs.
C23_OrderIndependent ==
    pc = "written" =>
        \A items \in InsertionOrders(meta_lines) :
            Str(Inserted(items, 1, <<>>), note_lines) = ultrastar_file

\* C23 amended: the written file is the same for every order of
\* add_metadata calls that insert the same set of key/value pairs when at
\* most one key of the set is unrecognized; for any set the recognized
\* headers are written first and the same in every order.
C23_RecognizedOrderIndependent ==
    pc = "written" =>
        \A items \in InsertionOrders(meta_lines) :
            LET other == Str(Inserted(items, 1, <<>>), note_lines)
                known == Len(meta_lines) - Cardinality(Unrecognized(meta_lines))
            IN  /\ Cardinality(Unrecognized(meta_lines)) <= 1
                    => other = ultrastar_file
                /\ SubSeq(other, 1, known) = SubSeq(ultrastar_file, 1, known)
                /\ Len(other) = Len(ultrastar_file)

C23_Witness ==
    /\ pc = "written"
    /\ meta_lines = << <<"AUDIOURL", "a">>, <<"VIDEO", "b">>, <<"MP3", "a">> >>
    /\ ultrastar_file = <<"#MP3:a", "#VIDEO:b", "#AUDIOURL:a", "E">>
    /\ Str(Inserted(<<meta_lines[2], meta_lines[3], meta_lines[1]>>, 1, <<>>),
           note_lines) = ultrastar_file

(***************************************************************************)
(* KaraLuxer._convert_lines                                                *)
(***************************************************************************)
KARALUXER_BPS == 100
KARALUXER_BPM == 1500

\* A bracketed span of line.text with the text after it: the group of
\* SYLLABLE_REGEX that matches it (sound_pair, timing_pair,
\* pair_with_tag_prefix; unmatched if none does, as for {\i1}li), the
\* number written in its karaoke tag, in tenths of a centisecond, and the
\* text after the tag.
Span(group, timing, text) ==
    [group |-> group, timing |-> timing, text |-> text]

\* re.findall(SYLLABLE_REGEX, line.text): one tuple for every span the
\* expression matches, none for the rest of the text.
FindAll(text) == SelectSeq(text, LAMBDA span : span.group # "unmatched")

\* The else branch of the loop over the tuples: none of sound_pair,
\* timing_pair and pair_with_tag_prefix is set.
UnexpectedContent(match) ==
    match.group \notin {"sound_pair", "timing_pair", "pair_with_tag_prefix"}

UNEXPECTED == "Found something unexpected in line"

\* syllables.append((round(float(timing)), syllable_text)); a timing_pair
\* has syllable_text = None.
SyllableOf(span) ==
    <<PyRound(span.timing, 10),
      IF span.group = "timing_pair" THEN NoText ELSE span.text>>

\* The syllables list of a line: the else branch warns and continues.
Syllables(text) ==
    LET matches == SelectSeq(FindAll(text),
                             LAMBDA match : ~UnexpectedContent(match))
    IN  [n \in 1..Len(matches) |-> SyllableOf(matches[n])]

\* warnings.warn('Found something unexpected in line: ...') of a line.
UnexpectedWarnings(text) ==
    LET unexpected == SelectSeq(FindAll(text), UnexpectedContent)
    IN  [n \in 1..Len(unexpected) |-> UNEXPECTED]

\* Mutant: the cursor of every line starts at beat 0.
StartBeatZero(line) == 0

\* round(line.start.total_seconds() * KARALUXER_BPS)
StartBeat(line) == PyRound(line.start * KARALUXER_BPS, 100)

\* round((duration / 100) * KARALUXER_BPS)
ConvertedDuration(duration) == PyRound(duration * KARALUXER_BPS, 100)

\* Mutant: every duration is shortened by one.
TweakAlways(converted_duration) == converted_duration - 1

\* converted_duration - 1 if converted_duration > 1 else converted_duration
Tweak(converted_duration) ==
    IF converted_duration > 1 THEN converted_duration - 1
    ELSE converted_duration

\* int(round(beats * self.bpm / KARALUXER_BPM))
ToKaraokeBeats(beats, karaoke_bpm) == PyRound(beats * karaoke_bpm, KARALUXER_BPM)

\* Mutant: the cursor advances by the shortened duration.
AdvanceTweaked(current_beat, converted_duration) ==
    current_beat + Tweak(converted_duration)

\* current_beat += converted_duration
Advance(current_beat, converted_duration) ==
    current_beat + converted_duration

\* for duration, syllable_text in syllables: ...
RECURSIVE ConvertSyllables(_, _, _, _, _, _)
ConvertSyllables(song, syllables, n, current_beat, karaoke_bpm, duet_part) ==
    IF n > Len(syllables) THEN [song |-> song, current_beat |-> current_beat]
    ELSE
        LET converted_duration == ConvertedDuration(syllables[n][1])
            syllable_text == syllables[n][2]
        IN  IF syllable_text = NoText \/ syllable_text = ""
            THEN ConvertSyllables(song, syllables, n + 1,
                                  Advance(current_beat, converted_duration),
                                  karaoke_bpm, duet_part)
            ELSE ConvertSyllables(
                    add_note(song, ":",
                             ToKaraokeBeats(current_beat, karaoke_bpm),
                             ToKaraokeBeats(Tweak(converted_duration),
                                            karaoke_bpm),
                             DEFAULT_PITCH, syllable_text, duet_part),
                    syllables, n + 1,
                    Advance(current_beat, converted_duration),
                    karaoke_bpm, duet_part)

\* self.ultrastar_song.add_note('-', ...): no player is passed, so the
\* linebreak goes to the default player of add_note.
LinebreakPlayer(duet_part) == "P1"

\* The body of "for line in lines".
ConvertLine(song, line, karaoke_bpm, duet_part) ==
    LET done == ConvertSyllables(song, Syllables(line.text), 1, StartBeat(line),
                                 karaoke_bpm, duet_part)
    IN  add_note(done.song, "-",
                 ToKaraokeBeats(done.current_beat, karaoke_bpm),
                 None, None, NoText, LinebreakPlayer(duet_part))

\* The warnings of the body of "for line in lines": those of the loop over
\* the tuples, then one for every note of duration 0 that is added.
LineWarnings(line, karaoke_bpm) ==
    LET added == ConvertLine([P1 |-> <<>>, P2 |-> <<>>], line, karaoke_bpm, "P2")
        zero == SelectSeq(added["P2"], LAMBDA note :
                    NoteLineWarns(note.note_type, note.duration, note.pitch,
                                  note.text))
    IN  UnexpectedWarnings(line.text) \o [n \in 1..Len(zero) |-> ZERO_BEATS]

RECURSIVE ConvertWarnings(_, _, _)
ConvertWarnings(ls, i, karaoke_bpm) ==
    IF i > Len(ls) THEN <<>>
    ELSE LineWarnings(ls[i], karaoke_bpm) \o ConvertWarnings(ls, i + 1, karaoke_bpm)

RECURSIVE ConvertFrom(_, _, _, _, _)
ConvertFrom(song, ls, i, karaoke_bpm, duet_part) ==
    IF i > Len(ls) THEN song
    ELSE ConvertFrom(ConvertLine(song, ls[i], karaoke_bpm, duet_part),
                     ls, i + 1, karaoke_bpm, duet_part)

convert_lines(song, ls, karaoke_bpm, duet_part) ==
    ConvertFrom(song, ls, 1, karaoke_bpm, duet_part)

(***************************************************************************)
(* KaraLuxer.run, from the loaded lines to the mapped notes.               *)
(***************************************************************************)
\* if self.bpm_multiplier > 1: adjust_notes(self.bpm_multiplier, player)
AdjustIfMultiple(song, m, players) ==
    IF m > 1
    THEN [q \in Players |->
            IF q \in players THEN adjust_notes(song[q], m) ELSE song[q]]
    ELSE song

\* self._convert_lines(duet_parts[0], 'P1')
\* self._convert_lines(duet_parts[1], 'P2')
ConvertDuet(song, ls, sts, karaoke_bpm) ==
    convert_lines(
        convert_lines(song, get_lines_in_style(sts[1][1], ls), karaoke_bpm, "P1"),
        get_lines_in_style(sts[2][1], ls), karaoke_bpm, "P2")

\* The rest of run once two styles are left: _separate_duet_parts names the
\* parts in the metadata, both parts are converted and both tracks adjusted.
MapDuet(sts) ==
    LET converted == ConvertDuet(note_lines, lines, sts, bpm)
    IN  /\ meta_lines' = add_metadata(add_metadata(meta_lines, "P1", sts[1][1]),
                                      "P2", sts[2][1])
        /\ emitted' = converted
        /\ pre_notes' = converted
        /\ note_lines' = AdjustIfMultiple(converted, bpm_multiplier, Players)
        /\ calls' = IF bpm_multiplier > 1 THEN 2 ELSE 0
        /\ styles' = sts
        /\ warned' = warned
                \o ConvertWarnings(get_lines_in_style(sts[1][1], lines), 1, bpm)
                \o ConvertWarnings(get_lines_in_style(sts[2][1], lines), 1, bpm)
        /\ pc' = "mapped"
        /\ UNCHANGED overlap_filter_method

\* if self.overlap_filter_method != 'duet': self._convert_lines(subtitle_lines)
MapLines(subtitle_lines, warnings) ==
    LET converted == convert_lines(note_lines, subtitle_lines, bpm, "P1")
    IN  /\ warned' = warned \o warnings
                        \o ConvertWarnings(subtitle_lines, 1, bpm)
        /\ emitted' = converted
        /\ pre_notes' = converted
        /\ note_lines' = AdjustIfMultiple(converted, bpm_multiplier, {"P1"})
        /\ calls' = IF bpm_multiplier > 1 THEN 1 ELSE 0
        /\ pc' = "mapped"
        /\ UNCHANGED meta_lines

MapPlain == MapLines(lines, <<>>)

\* warnings.warn of _filter_overlapping_lines_style and _separate_duet_parts
\* when the lines have one style.
ONE_STYLE == "there is only one style"

\* run with overlap_filter_method None: overlaps are left in.
RunPlain ==
    /\ pc = "loaded"
    /\ overlap_filter_method = "None"
    /\ MapPlain
    /\ UNCHANGED <<lines, styles, bpm, bpm_multiplier, overlap_filter_method,
                   input_lines, decisions, asked, answer, strays>>
    /\ UNCHANGED <<ultrastar_file, raised>>
    /\ UNCHANGED <<start_vars, gui_vars>>

\* run with overlap_filter_method 'duet', up to the first style selection.
\* One style: the job goes on as a plain one. No style (no line):
\* styles[0][0] raises IndexError.
RunDuet ==
    /\ pc = "loaded"
    /\ overlap_filter_method = "duet"
    /\ LET sts == get_styles_in_lines(lines)
       IN  IF Len(sts) = 1
           THEN /\ overlap_filter_method' = "None"
                /\ styles' = sts
                /\ MapLines(lines, <<ONE_STYLE>>)
           ELSE IF Len(sts) = 0
           THEN /\ pc' = "error"
                /\ styles' = sts
                /\ UNCHANGED <<note_lines, meta_lines, emitted, pre_notes,
                               calls, overlap_filter_method, warned>>
           ELSE IF Len(sts) = 2
           THEN MapDuet(sts)
           ELSE /\ pc' = "select_style"
                /\ styles' = sts
                /\ UNCHANGED <<note_lines, meta_lines, emitted, pre_notes,
                               calls, overlap_filter_method, warned>>
    /\ UNCHANGED <<lines, bpm, bpm_multiplier, input_lines, decisions, asked,
                   answer, strays>>
    /\ UNCHANGED <<ultrastar_file, raised>>
    /\ UNCHANGED <<start_vars, gui_vars>>

\* while (len(styles) > 2): the style selection function returns the style
\* to discard; with two styles left the job maps the duet.
SelectDuetStyle(selected_style) ==
    /\ pc = "select_style"
    /\ selected_style \in StyleNames(styles) \/ strays < MaxStray
    /\ decisions' = decisions + 1
    /\ asked' = styles
    /\ answer' = selected_style
    /\ strays' = IF selected_style \in StyleNames(styles)
                 THEN strays ELSE strays + 1
    /\ LET sts == DiscardStyle(styles, selected_style)
       IN  IF Len(sts) > 2
           THEN /\ styles' = sts
                /\ UNCHANGED <<note_lines, meta_lines, emitted, pre_notes,
                               calls, overlap_filter_method, pc, warned>>
           ELSE MapDuet(sts)
    /\ UNCHANGED <<lines, bpm, bpm_multiplier, input_lines>>
    /\ UNCHANGED <<ultrastar_file, raised>>
    /\ UNCHANGED <<start_vars, gui_vars>>

\* run with overlap_filter_method 'style', up to the first style selection:
\* _filter_overlapping_lines_style. One style: the lines are returned as
\* they are and mapped. No style (no line): styles[0][0] raises IndexError.
RunStyle ==
    /\ pc = "loaded"
    /\ overlap_filter_method = "style"
    /\ LET sts == get_styles_in_lines(lines)
       IN  /\ styles' = sts
           /\ IF Len(sts) = 1
              THEN MapLines(lines, <<ONE_STYLE>>)
              ELSE IF Len(sts) = 0
              THEN /\ pc' = "error"
                   /\ UNCHANGED <<note_lines, meta_lines, emitted, pre_notes,
                                  calls, warned>>
              ELSE /\ pc' = "keep_style"
                   /\ UNCHANGED <<note_lines, meta_lines, emitted, pre_notes,
                                  calls, warned>>
    /\ UNCHANGED <<lines, bpm, bpm_multiplier, overlap_filter_method,
                   input_lines, decisions, asked, answer, strays>>
    /\ UNCHANGED <<ultrastar_file, raised>>
    /\ UNCHANGED <<start_vars, gui_vars>>

\* while (len(styles) > 1): the style selection function returns the style
\* to discard; with one style left its lines are returned and mapped.
SelectKeepStyle(selected_style) ==
    /\ pc = "keep_style"
    /\ selected_style \in StyleNames(styles) \/ strays < MaxStray
    /\ decisions' = decisions + 1
    /\ asked' = styles
    /\ answer' = selected_style
    /\ strays' = IF selected_style \in StyleNames(styles)
                 THEN strays ELSE strays + 1
    /\ LET sts == DiscardStyle(styles, selected_style)
       IN  /\ styles' = sts
           /\ IF Len(sts) > 1
              THEN UNCHANGED <<lines, note_lines, meta_lines, emitted,
                               pre_notes, calls, pc, warned>>
              ELSE /\ lines' = get_lines_in_style(sts[1][1], lines)
                   /\ MapLines(lines', <<>>)
    /\ UNCHANGED <<bpm, bpm_multiplier, overlap_filter_method, input_lines>>
    /\ UNCHANGED <<ultrastar_file, raised>>
    /\ UNCHANGED <<start_vars, gui_vars>>

\* The metadata a job without a kara.moe URL has added when the lines are
\* loaded: add_metadata of TITLE, ARTIST, CREATOR, LANGUAGE,
\* KARALUXER-VERSION, GAP and BPM (str(self.bpm)).
InitialMeta(karaoke_bpm) ==
    add_metadata(add_metadata(add_metadata(add_metadata(add_metadata(
    add_metadata(add_metadata(<<>>,
        "TITLE", "Song Title"),
        "ARTIST", "Song Artist"),
        "CREATOR", "Map Creator"),
        "LANGUAGE", "Map Creator"),
        "KARALUXER-VERSION", "3.0.0"),
        "GAP", "0"),
        "BPM", ToString(karaoke_bpm))

KaraokeBpms == {300, 1500, 3000}

StyleUniverse == {"A", "B", "C"}

TimingLiterals == {10 * k : k \in 0..MaxTiming} \cup {25}

Spans ==
    {Span("sound_pair", t, "la") : t \in TimingLiterals}
        \cup {Span("timing_pair", t, "") : t \in TimingLiterals}
        \cup {Span("pair_with_tag_prefix", 20, "lo")}
        \cup {Span("unmatched", 0, "li")}

\* start=1.00s, end=3.00s, text {\k50}Hel{\k50}lo
ScenarioLine ==
    Line(1, 100, 300, "A",
         <<Span("sound_pair", 500, "Hel"), Span("sound_pair", 500, "lo")>>)

\* One line with any text of up to MaxSpans spans, mapped without a filter.
SingleLineJob ==
    /\ \E start \in {0, MaxStart} : \E n \in 0..MaxSpans :
       \E text \in [1..n -> Spans] :
            lines = <<Line(1, start, start + MaxTiming, "A", text)>>
    /\ overlap_filter_method = "None"
    /\ bpm \in KaraokeBpms

ScenarioJob ==
    /\ lines = <<ScenarioLine>>
    /\ overlap_filter_method = "None"
    /\ bpm \in KaraokeBpms

\* Up to MaxJobLines lines of any styles, mapped without a filter, with
\* the style filter or as a duet. The lines have one sung syllable each,
\* but for the lines of one style, which may have no karaoke tag at all.
StyledLinesJob ==
    /\ \E n \in 0..MaxJobLines :
       \E style \in [1..n -> StyleUniverse] :
       \E untagged \in StyleUniverse \cup {NoText} :
            lines = [i \in 1..n |->
                        Line(i, i, i + MaxTiming, style[i],
                             IF style[i] = untagged THEN <<>>
                             ELSE <<Span("sound_pair", 20, "la")>>)]
    /\ overlap_filter_method \in {"None", "style", "duet"}
    /\ bpm = KARALUXER_BPM

Init ==
    /\ SingleLineJob \/ ScenarioJob \/ StyledLinesJob
    /\ SortedByStart(lines)
    /\ bpm_multiplier \in {1, MaxJobMult}
    /\ input_lines = lines
    /\ pc = "loaded"
    /\ styles = <<>>
    /\ note_lines = [P1 |-> <<>>, P2 |-> <<>>]
    /\ emitted = note_lines
    /\ pre_notes = note_lines
    /\ meta_lines = InitialMeta(bpm)
    /\ calls = 0
    /\ decisions = 0
    /\ asked = <<>>
    /\ answer = NoText
    /\ strays = 0
    /\ ultrastar_file = <<>>
    /\ raised = NoText
    /\ warned = <<>>
    /\ NotStarted
    /\ NoThread

Next ==
    \/ RunPlain
    \/ RunDuet
    \/ \E selected_style \in StyleUniverse : SelectDuetStyle(selected_style)
    \/ RunStyle
    \/ \E selected_style \in StyleUniverse : SelectKeepStyle(selected_style)

Spec == Init /\ [][Next]_vars

\* C1: the list the individual filter returns holds no two overlapping
\* lines: for positions i < j, lines[i].end <= lines[j].start.
C1_NoOverlapRemains ==
    pc = "filtered" =>
        \A i, j \in 1..Len(lines) : i < j => lines[i].end <= lines[j].start

C1_Witness ==
    /\ pc = "filtered"
    /\ decisions >= 2
    /\ Len(lines) >= 2
    /\ \E i, j \in 1..Len(input_lines) :
          i < j /\ input_lines[i].end > input_lines[j].start

(***************************************************************************)
(* Properties of _convert_lines and of the duet mapping, checked under     *)
(* Spec.                                                                   *)
(***************************************************************************)
\* The lines whose notes belong to a player once the job is mapped.
PartLines(player) ==
    IF overlap_filter_method = "duet"
    THEN get_lines_in_style(styles[IF player = "P1" THEN 1 ELSE 2][1], lines)
    ELSE IF player = "P1" THEN lines ELSE <<>>

HasText(syllable) == syllable[2] # NoText /\ syllable[2] # ""

\* The sung syllables of a list of lines, in order: line i, syllable j.
RECURSIVE FlatSung(_, _, _)
FlatSung(ls, i, j) ==
    IF i > Len(ls) THEN <<>>
    ELSE IF j > Len(Syllables(ls[i].text)) THEN FlatSung(ls, i + 1, 1)
    ELSE IF HasText(Syllables(ls[i].text)[j])
    THEN <<[line |-> i, syl |-> j]>> \o FlatSung(ls, i, j + 1)
    ELSE FlatSung(ls, i, j + 1)

\* The sum of the converted durations of the first n syllables of a line.
RECURSIVE ConvertedBefore(_, _)
ConvertedBefore(line, n) ==
    IF n = 0 THEN 0
    ELSE ConvertedBefore(line, n - 1)
            + ConvertedDuration(Syllables(line.text)[n][1])

ConvertedOf(line, j) == ConvertedDuration(Syllables(line.text)[j][1])

Linebreaks(notes) == SelectSeq(notes, LAMBDA note : ~IsSung(note))

\* The first linebreak at or after position k of a track, 0 if none.
RECURSIVE BreakAfter(_, _)
BreakAfter(notes, k) ==
    IF k > Len(notes) THEN 0
    ELSE IF ~IsSung(notes[k]) THEN k
    ELSE BreakAfter(notes, k + 1)

\* C3: in a duet every linebreak and every note of the lines of the second
\* style is in track P2, and P1 holds the note lines of the first style
\* only: each track holds one linebreak per line of its part and one sung
\* note per sung syllable of its part.
C3_DuetOwnership ==
    (pc = "mapped" /\ overlap_filter_method = "duet") =>
        \A player \in Players :
            /\ Len(Linebreaks(note_lines[player])) = Len(PartLines(player))
            /\ Len(SungOf(note_lines[player]))
                    = Len(FlatSung(PartLines(player), 1, 1))

\* C8: for every line of a job without a filter, at any karaoke BPM, the
\* notes of the line start in non-decreasing order and the linebreak of
\* the line is at or after start_beat + duration of each of them.
C8_LineMonotonic ==
    (pc = "mapped" /\ overlap_filter_method = "None") =>
        LET notes == emitted["P1"]
        IN  \A k \in SungIdx(notes) :
                LET b == BreakAfter(notes, k)
                IN  /\ b # 0
                    /\ notes[b].start_beat
                            >= notes[k].start_beat + notes[k].duration
                    /\ \A k2 \in SungIdx(notes) :
                            (k < k2 /\ k2 < b) =>
                                notes[k].start_beat <= notes[k2].start_beat

\* C9: at karaoke BPM 1500 the k-th sung syllable of a line is emitted as
\* a regular note at the start of the line plus the converted durations of
\* all syllables before it; a syllable without text emits no note. The
\* line at 1.00s with {\k50}Hel{\k50}lo yields ': 100 49 19 Hel',
\* ': 150 49 19 lo', '- 200'.
C9_CursorNoDrift ==
    (pc = "mapped" /\ bpm = KARALUXER_BPM) =>
        /\ \A player \in Players :
              LET sung == SungOf(emitted[player])
                  part == PartLines(player)
                  flat == FlatSung(part, 1, 1)
              IN  /\ Len(sung) = Len(flat)
                  /\ \A n \in 1..Len(flat) :
                        LET line == part[flat[n].line]
                        IN  /\ sung[n].note_type = ":"
                            /\ sung[n].start_beat
                                  = line.start
                                      + ConvertedBefore(line, flat[n].syl - 1)
                            /\ sung[n].text
                                  = Syllables(line.text)[flat[n].syl][2]
        /\ lines = <<ScenarioLine>> =>
              emitted["P1"] = <<NoteLine(":", 100, 49, DEFAULT_PITCH, "Hel"),
                                NoteLine(":", 150, 49, DEFAULT_PITCH, "lo"),
                                Linebreak(200)>>

C9_Witness ==
    /\ pc = "mapped"
    /\ bpm = KARALUXER_BPM
    /\ Len(lines) = 1
    /\ lines[1].start > 0
    /\ Len(Syllables(lines[1].text)) = 2
    /\ HasText(Syllables(lines[1].text)[1])
    /\ HasText(Syllables(lines[1].text)[2])
    /\ ConvertedOf(lines[1], 1) > 1
    /\ Len(emitted["P1"]) = 3
    /\ emitted["P1"][2].start_beat
          = lines[1].start + ConvertedOf(lines[1], 1)
    /\ emitted["P1"][1].duration < ConvertedOf(lines[1], 1)

\* C10 as stated: in every job the emitted duration of a sung syllable is
\* converted_duration - 1 when converted_duration > 1 (and then at least
\* 1), and converted_duration itself otherwise.
C10_ShrinkUnscaled ==
    pc = "mapped" =>
        \A player \in Players :
            LET sung == SungOf(emitted[player])
                part == PartLines(player)
                flat == FlatSung(part, 1, 1)
            IN  \A n \in 1..Len(flat) :
                    LET converted_duration ==
                            ConvertedOf(part[flat[n].line], flat[n].syl)
                    IN  IF converted_duration > 1
                        THEN /\ sung[n].duration = converted_duration - 1
                             /\ sung[n].duration >= 1
                        ELSE sung[n].duration = converted_duration

\* C10 amended: the emitted duration is the shortened duration
\* (converted_duration - 1 when converted_duration > 1, converted_duration
\* otherwise) times karaoke_bpm / 1500, rounded to a nearest integer; at
\* karaoke BPM 1500 it is the shortened duration itself.
C10_ShrinkScaled ==
    pc = "mapped" =>
        \A player \in Players :
            LET sung == SungOf(emitted[player])
                part == PartLines(player)
                flat == FlatSung(part, 1, 1)
            IN  /\ Len(sung) = Len(flat)
                /\ \A n \in 1..Len(flat) :
                      LET converted_duration ==
                              ConvertedOf(part[flat[n].line], flat[n].syl)
                          shortened ==
                              IF converted_duration > 1
                              THEN converted_duration - 1
                              ELSE converted_duration
                      IN  /\ 2 * Abs(KARALUXER_BPM * sung[n].duration
                                        - shortened * bpm) <= KARALUXER_BPM
                          /\ bpm = KARALUXER_BPM =>
                                sung[n].duration = shortened

C10_Witness ==
    /\ pc = "mapped"
    /\ bpm # KARALUXER_BPM
    /\ Len(lines) = 1
    /\ Len(lines[1].text) = 2
    /\ Len(SungOf(emitted["P1"])) = 2
    /\ ConvertedOf(lines[1], 1) > 1
    /\ ConvertedOf(lines[1], 2) = 1
    /\ emitted["P1"][1].duration # ConvertedOf(lines[1], 1) - 1
    /\ emitted["P1"][2].duration # 1

(***************************************************************************)
(* The linebreak of a converted line.                                      *)
(***************************************************************************)
\* The cursor after the last syllable of a line.
FinalCursor(line) ==
    line.start + ConvertedBefore(line, Len(Syllables(line.text)))

\* The number of sung syllables of the first i lines of a list.
SungCountUpTo(ls, i) == Len(FlatSung(SubSeq(ls, 1, i), 1, 1))

\* The lines of a mapped job in the order _convert_lines took them.
ConvertedLines == PartLines("P1") \o PartLines("P2")

\* The linebreaks of a mapped job as _convert_lines left them.
EmittedBreaks == Linebreaks(emitted["P1"]) \o Linebreaks(emitted["P2"])

\* The linebreak of line i of the lines converted with duet part P1 comes
\* after the notes of lines 1..i and the linebreaks of lines 1..i-1.
BreaksCloseLines ==
    LET part == PartLines("P1")
    IN  \A i \in 1..Len(part) :
            LET at == SungCountUpTo(part, i) + i
            IN  /\ at <= Len(emitted["P1"])
                /\ ~IsSung(emitted["P1"][at])

\* C11 as stated: every converted line emits exactly one linebreak, after
\* the notes of the line, at line start beat plus the sum of the converted
\* durations of its syllables; a line without syllables emits it at its
\* start beat.
C11_BreakAtCursor ==
    pc = "mapped" =>
        /\ Len(EmittedBreaks) = Len(ConvertedLines)
        /\ BreaksCloseLines
        /\ \A i \in 1..Len(ConvertedLines) :
              EmittedBreaks[i].start_beat = FinalCursor(ConvertedLines[i])

\* C11 amended: every converted line emits exactly one linebreak, after the
\* notes of the line, at the final cursor times karaoke_bpm / 1500, rounded
\* to a nearest integer; at karaoke BPM 1500 that is the final cursor, and
\* the start beat of a line without syllables.
C11_BreakAtScaledCursor ==
    pc = "mapped" =>
        /\ Len(EmittedBreaks) = Len(ConvertedLines)
        /\ BreaksCloseLines
        /\ \A i \in 1..Len(ConvertedLines) :
              /\ 2 * Abs(KARALUXER_BPM * EmittedBreaks[i].start_beat
                            - FinalCursor(ConvertedLines[i]) * bpm)
                    <= KARALUXER_BPM
              /\ bpm = KARALUXER_BPM =>
                    EmittedBreaks[i].start_beat = FinalCursor(ConvertedLines[i])

C11_Witness ==
    /\ pc = "mapped"
    /\ bpm # KARALUXER_BPM
    /\ Len(lines) = 1
    /\ lines[1].start > 0
    /\ Len(Syllables(lines[1].text)) = 2
    /\ Len(emitted["P1"]) = 3
    /\ ~IsSung(emitted["P1"][3])
    /\ FinalCursor(lines[1]) > lines[1].start
    /\ emitted["P1"][3].start_beat # FinalCursor(lines[1])

\* A line without syllables at karaoke BPM 1500: one linebreak at its start.
C11_WitnessNoSyllable ==
    /\ pc = "mapped"
    /\ bpm = KARALUXER_BPM
    /\ Len(lines) = 1
    /\ lines[1].text = <<>>
    /\ lines[1].start > 0
    /\ emitted["P1"] = <<Linebreak(lines[1].start)>>

(***************************************************************************)
(* The spans of a line that SYLLABLE_REGEX does not match.                 *)
(***************************************************************************)
RECURSIVE UnmatchedSpans(_, _)
UnmatchedSpans(ls, i) ==
    IF i > Len(ls) THEN 0
    ELSE Len(SelectSeq(ls[i].text, LAMBDA span : span.group = "unmatched"))
            + UnmatchedSpans(ls, i + 1)

\* C26: the converter warns of unexpected content once for every bracketed
\* span of a converted line that matches none of the three grammars.
C26_UnexpectedWarned ==
    pc = "mapped" =>
        Len(SelectSeq(warned, LAMBDA warning : warning = UNEXPECTED))
            = UnmatchedSpans(ConvertedLines, 1)

(***************************************************************************)
(* Properties of the individual filter, checked under SpecIndividual.      *)
(***************************************************************************)
Filtering == pc \in {"filter", "filter_again"}

\* The step is a call of the decision function.
DecisionStep == decisions' = decisions + 1

\* The list without the element at position k.
Without(ls, k) == SubSeq(ls, 1, k - 1) \o SubSeq(ls, k + 1, Len(ls))

\* sub is ls with some elements left out, the others in their order.
RECURSIVE IsSubsequence(_, _)
IsSubsequence(sub, ls) ==
    IF sub = <<>> THEN TRUE
    ELSE IF ls = <<>> THEN FALSE
    ELSE IF Head(sub) = Head(ls) THEN IsSubsequence(Tail(sub), Tail(ls))
    ELSE IsSubsequence(sub, Tail(ls))

\* C12: the individual filter run on a list it has returned calls the
\* decision function zero times and returns the list unchanged: the scan
\* of the second run finds no group and its only step is the return.
C12_FixedPoint ==
    /\ [](pc = "filter_again" => FirstOverlapGroup(lines, 1) = <<>>)
    /\ [][pc = "filter_again" =>
            /\ pc' = "filtered_again"
            /\ lines' = lines
            /\ decisions' = decisions]_vars

C12_Witness ==
    /\ pc = "filtered_again"
    /\ strays = 0
    /\ decisions >= 2
    /\ Len(lines) >= 2
    /\ Len(lines) + decisions = Len(input_lines)

\* C13: with a decision function that returns a member of the group it was
\* given, every call removes one line, an input of n >= 1 lines sees at
\* most n - 1 calls (none for an empty input), the filter has a next step
\* until it returns, and the pass that finds no group returns at once.
C13_Terminates ==
    /\ [](strays = 0 =>
            /\ decisions + Len(lines) = Len(input_lines)
            /\ Len(input_lines) >= 1 => decisions <= Len(input_lines) - 1
            /\ Len(input_lines) = 0 => decisions = 0
            /\ Filtering => ENABLED NextIndividual)
    /\ [][(Filtering /\ FirstOverlapGroup(lines, 1) = <<>>) =>
            (pc' = Returned(pc) /\ decisions' = decisions)]_vars

C13_Witness ==
    /\ pc = "filtered"
    /\ strays = 0
    /\ Len(input_lines) >= 3
    /\ decisions = Len(input_lines) - 1

\* C14: a decision step whose answer is a member of the group removes
\* exactly the line returned and keeps the other lines in their order, so
\* the list is always a subsequence of the input; for two overlapping lines
\* and an answer that is the second group member the result is the first
\* line alone.
C14_RemovesTheAnswer ==
    /\ [](strays = 0 => IsSubsequence(lines, input_lines))
    /\ [][(DecisionStep /\ strays' = strays) =>
            \E k \in 1..Len(lines) :
                /\ lines[k] = answer'
                /\ lines' = Without(lines, k)]_vars
    /\ []((/\ pc = "filtered" /\ Len(input_lines) = 2 /\ decisions = 1
           /\ answer = asked[2])
            => lines = <<input_lines[1]>>)

C14_Witness ==
    /\ pc = "filtered"
    /\ Len(input_lines) = 2
    /\ input_lines[1].end = input_lines[2].start + 1
    /\ decisions = 1
    /\ answer = asked[2]
    /\ lines = <<input_lines[1]>>

\* The longest run of consecutive lines from position i on in which each
\* line ends after the start of the next one.
RECURSIVE ChainEnd(_, _)
ChainEnd(ls, j) ==
    IF j < Len(ls) /\ ls[j].end > ls[j + 1].start THEN ChainEnd(ls, j + 1)
    ELSE j

\* The first position whose line ends after the start of the next line.
FirstOverlapping(ls) ==
    CHOOSE i \in 1..(Len(ls) - 1) :
        /\ ls[i].end > ls[i + 1].start
        /\ \A h \in 1..(i - 1) : ls[h].end <= ls[h + 1].start

FirstChainedRun(ls) ==
    SubSeq(ls, FirstOverlapping(ls), ChainEnd(ls, FirstOverlapping(ls)))

\* The line at the first such position and the consecutive lines after it
\* that start before that line ends.
FirstAnchoredRun(ls) ==
    LET i == FirstOverlapping(ls)
        j == CHOOSE j \in i..Len(ls) :
                /\ \A k \in (i + 1)..j : ls[i].end > ls[k].start
                /\ j < Len(ls) => ls[i].end <= ls[j + 1].start
    IN  SubSeq(ls, i, j)

\* C15 as stated: the group handed to the decision function is the first
\* maximal run of consecutive lines in which each line ends after the start
\* of the next line of the run, chained through intermediate lines.
C15_GroupIsChainedRun ==
    [][DecisionStep => asked' = FirstChainedRun(lines)]_vars

\* C15 amended: the group handed to the decision function is the first
\* line that ends after the start of the line after it, together with the
\* consecutive following lines that start before that first line ends.
C15_GroupIsAnchoredRun ==
    [][DecisionStep => asked' = FirstAnchoredRun(lines)]_vars

C15_Witness ==
    /\ decisions = 1
    /\ Len(input_lines) = 3
    /\ asked = FirstAnchoredRun(input_lines)
    /\ Len(asked) = 2
    /\ Len(FirstChainedRun(input_lines)) = 3

\* C16: when the decision function returns something that is not a member
\* of the list it was given, nothing is discarded, the resolver asks again
\* and does not fail.
C16_InvalidAnswerIgnored ==
    [][(DecisionStep /\ strays' = strays + 1) =>
            /\ lines' = lines
            /\ styles' = styles
            /\ pc' = pc]_vars

(***************************************************************************)
(* Properties of the duet split and of the style filter, checked under     *)
(* Spec.                                                                   *)
(***************************************************************************)
\* The positions of a text line in the output.
PlacesOf(output, text) == {k \in 1..Len(output) : output[k] = text}

\* C17: a duet job whose lines have fewer than two styles (one, or none
\* for no lines) does not fail: the step maps the job as a non-duet one
\* into track P1, adds no P1/P2 metadata and calls no selection function.
C17_DuetFallback ==
    [][(/\ pc = "loaded"
        /\ overlap_filter_method = "duet"
        /\ Len(get_styles_in_lines(lines)) < 2)
        => (/\ pc' = "mapped"
            /\ overlap_filter_method' = "None"
            /\ meta_lines' = meta_lines
            /\ decisions' = 0
            /\ note_lines'["P2"] = <<>>
            /\ Len(Linebreaks(note_lines'["P1"])) = Len(lines))]_vars

\* C18: a duet job whose lines have exactly two styles ends with both
\* tracks non-empty, and its output has the marker P1, later an E, then
\* the marker P2 and a last E.
C18_DuetTwoTracks ==
    (/\ pc = "mapped"
     /\ overlap_filter_method = "duet"
     /\ Len(get_styles_in_lines(input_lines)) = 2)
        => LET output == NoteBlocks(note_lines)
           IN  /\ note_lines["P1"] # <<>>
               /\ note_lines["P2"] # <<>>
               /\ PlacesOf(output, "P1") = {1}
               /\ Cardinality(PlacesOf(output, "P2")) = 1
               /\ \A k \in PlacesOf(output, "P2") :
                     k > 2 /\ output[k - 1] = "E"
               /\ output[Len(output)] = "E"
               /\ Cardinality(PlacesOf(output, "E")) = 2

\* The number of distinct styles of the lines as loaded.
InputStyleCount == Len(get_styles_in_lines(input_lines))

\* C19: the style filter with k >= 2 styles and a selection function that
\* returns a style of the list it was given calls it k - 1 times, each
\* time with the list without the styles discarded so far, and returns the
\* lines of the one style left, in their order; with one style it returns
\* the lines as they are without a call.
C19_StyleKeep ==
    /\ []((/\ pc = "mapped" /\ overlap_filter_method = "style"
           /\ strays = 0 /\ InputStyleCount >= 2)
            => /\ decisions = InputStyleCount - 1
               /\ Len(styles) = 1
               /\ lines = SelectSeq(input_lines,
                            LAMBDA l : l.style = styles[1][1])
               /\ lines # <<>>)
    /\ []((/\ pc = "mapped" /\ overlap_filter_method = "style"
           /\ InputStyleCount = 1)
            => decisions = 0 /\ lines = input_lines)
    /\ []((pc = "keep_style" /\ strays = 0)
            => Len(styles) = InputStyleCount - decisions)
    /\ [][(pc = "keep_style" /\ DecisionStep /\ strays' = strays) =>
            /\ asked' = styles
            /\ answer' \in StyleNames(styles)
            /\ styles' = SelectSeq(styles, LAMBDA st : st[1] # answer')
            /\ Len(styles') = Len(styles) - 1]_vars

C19_Witness ==
    /\ pc = "mapped"
    /\ overlap_filter_method = "style"
    /\ strays = 0
    /\ decisions = 2
    /\ Len(input_lines) = 4
    /\ Len(lines) = 2
    /\ InputStyleCount = 3
    /\ Len(asked) = 2
    /\ answer = asked[1][1]
    /\ lines = <<input_lines[2], input_lines[4]>>

(***************************************************************************)
(* KaraLuxer.__init__ and main. A BPM is written in ten-thousandths of a   *)
(* beat per minute, so that 300.0001 is 3000001. The cover, background,    *)
(* audio, off-vocal and vocals files are left unset.                       *)
(***************************************************************************)
PyTrue == "True"            \* Python True where a policy name is expected

\* The kara.moe URLs given to the constructor.
KaraUrls ==
    {"https://kara.moe/kara/slug/id", "https://kara.moe/kara/slug/id !!",
     "http://kara.moe/kara/slug/id", "https://kara.moe/kara/slug"}

\* re.match(kara_regex, kara_url): the expression matches at the start of
\* the URL, whatever follows the match.
KaraRegexMatch(kara_url) ==
    kara_url \in {"https://kara.moe/kara/slug/id",
                  "https://kara.moe/kara/slug/id !!"}

\* The subtitle paths given to the constructor: Path.suffix and
\* Path.exists() of each.
AssFiles == {"song.ass", "song.txt", "missing.ass"}

Suffix(path) == IF path = "song.txt" THEN ".txt" ELSE ".ass"

Exists(path) == path # "missing.ass"

Bpms == {3000000, 3000001, 4500000}

SongBpms == {0, 1500000, 2000000}

PolicyNames == {"None", "style", "individual", "duet", "both", PyTrue}

Arguments(kara_url, ass_file, filter_method, karaoke_bpm, song_bpm) ==
    [kara_url |-> kara_url, ass_file |-> ass_file,
     overlap_filter_method |-> filter_method,
     karaoke_bpm |-> karaoke_bpm, song_bpm |-> song_bpm]

\* self.bpm_multiplier % 1 < 1e-5: the remainder of the division is less
\* than a hundred-thousandth of song_bpm.
NearInteger(karaoke_bpm, song_bpm) ==
    karaoke_bpm % song_bpm <= (song_bpm - 1) \div 100000

\* The exception KaraLuxer.__init__ raises for its arguments, NoText if it
\* returns.
InitRaises(args) ==
    IF (args.kara_url = NoText \/ args.kara_url = "") /\ args.ass_file = NoText
    THEN "ValueError"
    ELSE IF args.song_bpm = 0 THEN "ZeroDivisionError"
    ELSE IF ~NearInteger(args.karaoke_bpm, args.song_bpm) THEN "ValueError"
    ELSE IF /\ args.kara_url # NoText /\ args.kara_url # ""
            /\ ~KaraRegexMatch(args.kara_url)
    THEN "ValueError"
    ELSE IF args.ass_file # NoText /\ Suffix(args.ass_file) # ".ass"
    THEN "ValueError"
    ELSE IF args.ass_file # NoText /\ ~Exists(args.ass_file) THEN "IOError"
    ELSE IF args.overlap_filter_method
                \notin {"None", "style", "individual", "duet"}
    THEN "ValueError"
    ELSE NoText

\* The fields of the instance __init__ has set when it returns.
KaraLuxer(args) ==
    [kara_url |-> args.kara_url,
     subtitles |-> args.ass_file,
     overlap_filter_method |-> args.overlap_filter_method,
     bpm |-> args.karaoke_bpm,
     bpm_multiplier |-> args.karaoke_bpm \div args.song_bpm]

\* The state after KaraLuxer(...) was called with args.
Constructed(args) ==
    /\ arguments' = args
    /\ raised' = InitRaises(args)
    /\ IF InitRaises(args) = NoText
       THEN /\ instance' = KaraLuxer(args)
            /\ pc' = "constructed"
       ELSE /\ instance' = <<>>
            /\ pc' = "error"

\* The overlap flags of the command line, a mutually exclusive group.
Flags == {<<>>, <<"-io">>, <<"-fi">>, <<"-fs">>, <<"-md">>}

\* Either a caller is about to construct a KaraLuxer from arguments (pc =
\* "new", no command line), or main has parsed the command line argv into
\* arguments (pc = "main").
InitStart ==
    /\ pc \in {"new", "main"}
    /\ argv \in IF pc = "new" THEN {<<>>}
               ELSE {<<"karaluxer.py">> \o flags : flags \in Flags}
    /\ arguments \in
        {Arguments(kara_url, ass_file, filter_method, karaoke_bpm, song_bpm) :
            kara_url \in KaraUrls \cup {NoText, ""},
            ass_file \in AssFiles \cup {NoText},
            filter_method \in IF pc = "new" THEN PolicyNames ELSE {"None"},
            karaoke_bpm \in Bpms, song_bpm \in SongBpms}
    /\ instance = <<>>
    /\ raised = NoText
    /\ NoThread
    /\ lines = <<>>
    /\ styles = <<>>
    /\ note_lines = [P1 |-> <<>>, P2 |-> <<>>]
    /\ meta_lines = <<>>
    /\ emitted = note_lines
    /\ pre_notes = note_lines
    /\ bpm = 1500
    /\ bpm_multiplier = 1
    /\ overlap_filter_method = "None"
    /\ calls = 0
    /\ input_lines = <<>>
    /\ decisions = 0
    /\ asked = <<>>
    /\ answer = NoText
    /\ strays = 0
    /\ ultrastar_file = <<>>
    /\ warned = <<>>

\* karaluxer_instance = KaraLuxer(...) by a caller of the class.
Construct ==
    /\ pc = "new"
    /\ Constructed(arguments)
    /\ UNCHANGED <<lines, styles, note_lines, meta_lines, emitted, bpm,
                   bpm_multiplier, overlap_filter_method, pre_notes, calls,
                   input_lines, decisions, asked, answer, strays,
                   ultrastar_file, warned, argv, gui_vars>>

\* The local overlap_filter_method main computes from the flags.
FlagPolicy(flags) ==
    IF flags = <<"-fi">> THEN "individual"
    ELSE IF flags = <<"-fs">> THEN "style"
    ELSE IF flags = <<"-md">> THEN "duet"
    ELSE "None"

\* arguments.ignore_overlaps: store_true with set_defaults(ignore_overlaps=
\* True), so True with and without the flag.
IgnoreOverlaps(flags) == PyTrue

\* main: the ninth argument of KaraLuxer(...), overlap_filter_method, is
\* arguments.ignore_overlaps; song_bpm is karaoke_bpm when --song-bpm is 0;
\* karaluxer_instance.run follows if the constructor returns.
Main ==
    /\ pc = "main"
    /\ Constructed(
            Arguments(arguments.kara_url, arguments.ass_file,
                      IgnoreOverlaps(Tail(argv)), arguments.karaoke_bpm,
                      IF arguments.song_bpm # 0 THEN arguments.song_bpm
                      ELSE arguments.karaoke_bpm))
    /\ UNCHANGED <<lines, styles, note_lines, meta_lines, emitted, bpm,
                   bpm_multiplier, overlap_filter_method, pre_notes, calls,
                   input_lines, decisions, asked, answer, strays,
                   ultrastar_file, warned, argv, gui_vars>>

NextStart == Construct \/ Main

SpecStart == InitStart /\ [][NextStart]_vars

(***************************************************************************)
(* Properties of the constructor and of main, checked under SpecStart.     *)
(***************************************************************************)
\* Nothing was fetched, loaded, converted or written.
NothingDone ==
    /\ instance = <<>>
    /\ lines = <<>>
    /\ note_lines = [P1 |-> <<>>, P2 |-> <<>>]
    /\ meta_lines = <<>>
    /\ ultrastar_file = <<>>

\* C27: a constructor call with neither URL nor subtitle file, with a URL
\* that is no kara.moe song address, with a karaoke BPM that is no integer
\* multiple of the song BPM, or with a policy name outside None, style,
\* individual and duet raises an error, and nothing has been fetched,
\* loaded, converted or written.
C27_FailFast ==
    (pc \in {"constructed", "error"} /\ argv = <<>> /\ arguments.song_bpm # 0)
        => ((\/ arguments.kara_url \in {NoText, ""}
                    /\ arguments.ass_file = NoText
             \/ arguments.kara_url
                    \notin {NoText, "", "https://kara.moe/kara/slug/id"}
             \/ arguments.karaoke_bpm % arguments.song_bpm # 0
             \/ arguments.overlap_filter_method
                    \notin {"None", "style", "individual", "duet"})
            => (raised # NoText /\ pc = "error" /\ NothingDone))

\* C28: main constructs the instance with the policy of its flag,
\* individual for --filter-individually, style for --filter-by-style, duet
\* for --map-duet and None without a flag, whenever the other arguments
\* are accepted, and goes on to run it.
C28_FlagsMapToPolicy ==
    (pc \in {"constructed", "error"} /\ argv # <<>>)
        => (InitRaises([arguments EXCEPT
                            !.overlap_filter_method = FlagPolicy(Tail(argv))])
                = NoText
            => /\ pc = "constructed"
               /\ instance # <<>>
               /\ instance.overlap_filter_method = FlagPolicy(Tail(argv)))

(***************************************************************************)
(* KaraLuxerThread and the selection windows of KaraLuxerWindow. The       *)
(* worker thread runs KaraLuxer.run with _overlap_decision and             *)
(* _style_selection as decision functions; the GUI thread runs the slots   *)
(* of the window. A window signal crosses threads and is queued; the       *)
(* discard signals are emitted in the thread the KaraLuxerThread object    *)
(* lives in, so their slots run at once.                                   *)
(***************************************************************************)
MaxGuiLines == 3

GuiStyles == {"A", "B", ""}

\* Up to MaxGuiLines lines of any styles, all overlapping or none, given to
\* the style filter or to the individual filter.
GuiJob ==
    /\ \E n \in 1..MaxGuiLines :
       \E style \in [1..n -> GuiStyles] :
       \E length \in {1, MaxTiming} :
            lines = [i \in 1..n |->
                        Line(i, i, i + length, style[i],
                             <<Span("sound_pair", 20, "la")>>)]
    /\ overlap_filter_method \in {"style", "individual"}
    /\ bpm = KARALUXER_BPM

\* Python None where the job selects lines, or styles.
NoSelection == IF overlap_filter_method = "individual" THEN NoLine ELSE NoText

\* The state when KaraLuxerThread.start() has been called.
InitGui ==
    /\ GuiJob
    /\ bpm_multiplier = 1
    /\ input_lines = lines
    /\ pc = "thread"
    /\ styles = <<>>
    /\ note_lines = [P1 |-> <<>>, P2 |-> <<>>]
    /\ emitted = note_lines
    /\ pre_notes = note_lines
    /\ meta_lines = InitialMeta(bpm)
    /\ calls = 0
    /\ decisions = 0
    /\ asked = <<>>
    /\ answer = NoSelection
    /\ strays = 0
    /\ ultrastar_file = <<>>
    /\ raised = NoText
    /\ warned = <<>>
    /\ NotStarted
    /\ thread_selected_line = NoLine
    /\ thread_selected_style = NoText
    /\ discard = NoSelection
    /\ handoff = "none"
    /\ signals = <<>>
    /\ window = <<>>
    /\ chosen = <<>>

\* not self.selected_line, not self.selected_style: None is falsy, a line
\* object is truthy, a string is truthy unless it is empty.
LineTruthy(line) == line # NoLine

StyleTruthy(style) == style # NoText /\ style # ""

\* KaraLuxerThread.run up to the first pass of the filter loop: the style
\* filter returns the lines of a single style as they are.
ThreadRun ==
    /\ pc = "thread"
    /\ IF overlap_filter_method = "style"
       THEN LET sts == get_styles_in_lines(lines)
            IN  /\ styles' = sts
                /\ IF Len(sts) = 1
                   THEN MapLines(lines, <<ONE_STYLE>>)
                   ELSE /\ pc' = "keep_style"
                        /\ UNCHANGED <<note_lines, meta_lines, emitted,
                                       pre_notes, calls, warned>>
       ELSE /\ pc' = "filter"
            /\ UNCHANGED <<styles, note_lines, meta_lines, emitted,
                           pre_notes, calls, warned>>
    /\ UNCHANGED <<lines, bpm, bpm_multiplier, overlap_filter_method,
                   input_lines, decisions, asked, answer, strays,
                   ultrastar_file, raised, start_vars, gui_vars>>

\* What the filter loop gives its decision function in this pass.
Requested ==
    IF pc = "keep_style" THEN styles ELSE FirstOverlapGroup(lines, 1)

\* The filter calls its decision function, which emits the window signal
\* and enters its while loop.
Request ==
    /\ pc \in {"keep_style", "filter"}
    /\ handoff = "none"
    /\ Requested # <<>>
    /\ signals' = Append(signals, Requested)
    /\ asked' = Requested
    /\ decisions' = decisions + 1
    /\ handoff' = "wait"
    /\ UNCHANGED <<lines, styles, note_lines, meta_lines, emitted, pc, bpm,
                   bpm_multiplier, overlap_filter_method, pre_notes, calls,
                   input_lines, answer, strays, ultrastar_file, raised,
                   warned, start_vars, thread_selected_line,
                   thread_selected_style, discard, window, chosen>>

\* The individual filter finds no group: it returns and the lines are
\* mapped.
FilterDone ==
    /\ pc = "filter"
    /\ handoff = "none"
    /\ Requested = <<>>
    /\ MapLines(lines, <<>>)
    /\ UNCHANGED <<lines, styles, bpm, bpm_multiplier, overlap_filter_method,
                   input_lines, decisions, asked, answer, strays,
                   ultrastar_file, raised, start_vars, gui_vars>>

\* while (not self.selected_line): pass, left once the field is truthy;
\* while the field is falsy the loop goes round without changing the state.
ExitWait ==
    /\ handoff = "wait"
    /\ IF pc = "keep_style" THEN StyleTruthy(thread_selected_style)
       ELSE LineTruthy(thread_selected_line)
    /\ handoff' = "read"
    /\ UNCHANGED <<lines, styles, note_lines, meta_lines, emitted, pc, bpm,
                   bpm_multiplier, overlap_filter_method, pre_notes, calls,
                   input_lines, decisions, asked, answer, strays,
                   ultrastar_file, raised, warned, start_vars,
                   thread_selected_line, thread_selected_style, discard,
                   signals, window, chosen>>

\* discard_line = self.selected_line
Read ==
    /\ handoff = "read"
    /\ discard' = IF pc = "keep_style" THEN thread_selected_style
                  ELSE thread_selected_line
    /\ handoff' = "clear"
    /\ UNCHANGED <<lines, styles, note_lines, meta_lines, emitted, pc, bpm,
                   bpm_multiplier, overlap_filter_method, pre_notes, calls,
                   input_lines, decisions, asked, answer, strays,
                   ultrastar_file, raised, warned, start_vars,
                   thread_selected_line, thread_selected_style, signals,
                   window, chosen>>

\* self.selected_line = None
Clear ==
    /\ handoff = "clear"
    /\ IF pc = "keep_style"
       THEN /\ thread_selected_style' = NoText
            /\ UNCHANGED thread_selected_line
       ELSE /\ thread_selected_line' = NoLine
            /\ UNCHANGED thread_selected_style
    /\ handoff' = "return"
    /\ UNCHANGED <<lines, styles, note_lines, meta_lines, emitted, pc, bpm,
                   bpm_multiplier, overlap_filter_method, pre_notes, calls,
                   input_lines, decisions, asked, answer, strays,
                   ultrastar_file, raised, warned, start_vars, discard,
                   signals, window, chosen>>

\* return discard_line, and the rest of the pass of the filter loop: the
\* style is dropped from the list, or the line removed from the lines;
\* with one style left its lines are returned and mapped.
Return ==
    /\ handoff = "return"
    /\ answer' = discard
    /\ handoff' = "none"
    /\ IF pc = "keep_style"
       THEN LET sts == DiscardStyle(styles, discard)
            IN  /\ styles' = sts
                /\ IF Len(sts) > 1
                   THEN UNCHANGED <<lines, note_lines, meta_lines, emitted,
                                    pre_notes, calls, pc, warned>>
                   ELSE /\ lines' = get_lines_in_style(sts[1][1], lines)
                        /\ MapLines(lines', <<>>)
       ELSE /\ lines' = Remove(lines, discard)
            /\ UNCHANGED <<styles, note_lines, meta_lines, emitted,
                           pre_notes, calls, pc, warned>>
    /\ UNCHANGED <<bpm, bpm_multiplier, overlap_filter_method, input_lines,
                   decisions, asked, strays, ultrastar_file, raised,
                   start_vars, thread_selected_line, thread_selected_style,
                   discard, signals, window, chosen>>

\* KaraLuxerWindow._overlap_decision / _style_decision start: the queued
\* signal is handled, the selection window opens (selection_window.exec()).
OpenWindow ==
    /\ signals # <<>>
    /\ window = <<>>
    /\ window' = <<Head(signals)>>
    /\ signals' = Tail(signals)
    /\ UNCHANGED <<lines, styles, note_lines, meta_lines, emitted, pc, bpm,
                   bpm_multiplier, overlap_filter_method, pre_notes, calls,
                   input_lines, decisions, asked, answer, strays,
                   ultrastar_file, raised, warned, start_vars,
                   thread_selected_line, thread_selected_style, discard,
                   handoff, chosen>>

\* What the button of place index delivers: overlapping_lines[index] for a
\* line window, style[0] for a style window.
Delivered(request, index) ==
    IF pc = "keep_style" THEN request[index][1] ELSE request[index]

\* A button of the window is pressed: the callback stores the selection
\* and closes the window, exec() returns, the discard signal is emitted and
\* its slot sets the field of the thread.
Select(index) ==
    /\ window # <<>>
    /\ index \in 1..Len(window[1])
    /\ IF pc = "keep_style"
       THEN /\ thread_selected_style' = Delivered(window[1], index)
            /\ UNCHANGED thread_selected_line
       ELSE /\ thread_selected_line' = Delivered(window[1], index)
            /\ UNCHANGED thread_selected_style
    /\ chosen' = Append(chosen, Delivered(window[1], index))
    /\ window' = <<>>
    /\ UNCHANGED <<lines, styles, note_lines, meta_lines, emitted, pc, bpm,
                   bpm_multiplier, overlap_filter_method, pre_notes, calls,
                   input_lines, decisions, asked, answer, strays,
                   ultrastar_file, raised, warned, start_vars, discard,
                   handoff, signals>>

NextGui ==
    \/ ThreadRun
    \/ Request
    \/ FilterDone
    \/ ExitWait
    \/ Read
    \/ Clear
    \/ Return
    \/ OpenWindow
    \/ \E index \in 1..MaxGuiLines : Select(index)

SpecGui == InitGui /\ [][NextGui]_vars

\* The steps of the worker thread.
Worker == ThreadRun \/ Request \/ FilterDone \/ ExitWait \/ Read \/ Clear \/ Return

\* The worker thread is scheduled again and again, and so is the event loop
\* of the GUI thread; the user is under no obligation to press a button.
SpecGuiFair ==
    /\ SpecGui
    /\ WF_vars(Worker)
    /\ WF_vars(OpenWindow)

(***************************************************************************)
(* Properties of the hand-off between the worker thread and the GUI,       *)
(* checked under SpecGuiFair.                                              *)
(***************************************************************************)
\* A call that has returned gave back the selection the window made for
\* its own request, the latest one.
ReturnsOwnSelection ==
    (handoff = "none" /\ decisions >= 1)
        => /\ Len(chosen) = decisions
           /\ answer = chosen[decisions]

\* The fields are empty when a request is issued.
EmptyAtRequest ==
    decisions' = decisions + 1
        => thread_selected_line = NoLine /\ thread_selected_style = NoText

\* The selection of the latest request has been delivered and the call has
\* not returned yet.
DeliveredToCall == handoff # "none" /\ Len(chosen) = decisions

\* C29: every call of _overlap_decision and _style_selection returns the
\* selection the window made for that call's request, the selected_line and
\* selected_style fields are empty when a request is issued, and a call
\* returns once the window has delivered its selection, whatever line or
\* style name was selected.
C29_Handoff ==
    /\ []ReturnsOwnSelection
    /\ [][EmptyAtRequest]_vars
    /\ DeliveredToCall ~> (handoff = "none")

C29_ReturnsOnceDelivered == DeliveredToCall ~> (handoff = "none")

C29_SafeHandoff == []ReturnsOwnSelection /\ [][EmptyAtRequest]_vars

\* The window has delivered the style named "" and the worker is still in
\* its while loop.
C29_EmptyNameDelivered ==
    /\ handoff = "wait"
    /\ DeliveredToCall
    /\ chosen[decisions] = ""
    /\ thread_selected_style = ""
====
